---------------------------- MODULE Spec2Model ----------------------------
(***************************************************************************)
(* TradeAdvisor: the magic-link store and the /magic-login handler         *)
(* (database.py, app.py) as a concurrent state machine, and the            *)
(* recommendation engine (trade_advisor.py) as operators applied to        *)
(* snapshots drawn from a bounded grid.                                    *)
(***************************************************************************)
EXTENDS Integers, Sequences, FiniteSets, TLC

VARIABLES
    \* ---- magic links: database.py and app.py ----
    now,          \* datetime.now(), in minutes
    magic_links,  \* committed rows of table magic_links (token is the primary key)
    writer,       \* the request holding SQLite's write lock (0: nobody)
    pc,           \* where each /magic-login request stands
    tok,          \* request.args.get("token") of the running request
    link,         \* the result of fetchone(): {} or {row}
    result,       \* what verify_magic_link returned
    resp,         \* the HTTP response of the request
    session,      \* session["user_email"] of each client
    cls,          \* history: the state of the presented token when SELECT ran
    saveCount,    \* history: successful save_magic_link calls per token
    savedEmail,   \* history: the email of the latest successful save per token
    successes,    \* history: emails returned by verify_magic_link per token
    saveResult,   \* what the last save_magic_link returned
    \* ---- recommendation engine: trade_advisor.py ----
    data,         \* the snapshot handed to the engine
    rec,          \* <<>> or <<result of get_trade_recommendation(data)>>
    expl,         \* <<>> or <<result of explain_trade_recommendation(data)>>
    conf,         \* <<>> or <<action, result of calculate_confidence(action, data)>>
    \* ---- users and watchlists: database.py ----
    users,        \* rows of table users
    user_tickers, \* rows of table user_tickers
    nextUserId,   \* the next AUTOINCREMENT id of users
    nextTickerId, \* the next AUTOINCREMENT id of user_tickers
    dbCall,       \* the last call and what it returned
    dbBefore,     \* history: the two tables as they were before the last call
    \* ---- end-of-day cache: market_data/cache.py ----
    clock,        \* time.time(), in ticks
    memory,       \* _MEMORY_CACHE of each process
    market_cache, \* rows of table market_cache
    cpc,          \* where each process stands in set_cached
    pending,      \* the ticker, data, ts and payload of a running set_cached
    cacheCall,    \* history: the last completed call and what it returned
    lastSet,      \* history: the last completed set_cached
    \* ---- provider and batch: market_data/provider.py, app.py ----
    today,           \* the local calendar day
    lru,             \* the lru_cache of fetch_snapshot, least recently used first
    lastFetch,       \* history: the last run of the body of fetch_snapshot
    bpc,             \* where analyze_user_tickers stands
    watch,           \* the user handed to analyze_user_tickers
    bi,              \* the index of the next watchlist entry
    results,         \* the rows built so far
    trace,           \* history: what was done for each entry of this run
    recommendations, \* rows of table recommendations
    nextRecId,       \* the next AUTOINCREMENT id of recommendations
    runs,            \* history: runs of analyze_user_tickers started
    \* ---- mail: email_utils.py ----
    configured,   \* EMAIL_USER and EMAIL_PASSWORD are set
    mstate,       \* where send_email stands
    mcaller,      \* who called send_email
    mto,          \* to_email
    mretry,       \* retry_count
    mattempt,     \* attempt, the loop variable
    mlog,         \* history: the outcome of each delivery attempt of this call
    mres,         \* what send_email returned
    bstate,       \* where send_bulk_email stands
    brecips,      \* recipients
    bidx,         \* the index of the recipient at hand
    bres,         \* results
    braised,      \* history: the recipients whose send_email raised
    bcalls,       \* history: the recipients send_email was called with
    \* ---- the lru_cache of fetch_snapshot called symbol by symbol ----
    asked,        \* history: every symbol asked for, least recently asked first
    lruCall,      \* history: the last call of fetch_snapshot and what it did
    fresh,        \* the next symbol that has never been asked for
    \* ---- startup of app.py ----
    env,          \* the environment variables that are set and not empty
    spc,          \* where the module-level code of app.py stands
    exitCode,     \* <<>> while the process runs, else <<its exit status>>
    steps,        \* history: the startup steps that ran, with their outcome
    handled,      \* history: requests handled by the server
    \* ---- routes of app.py ----
    wpc,          \* the route a client's request is inside, or "idle"
    webCall,      \* history: the last request answered and its response
    sent,         \* history: the emails handed to the mail server
    created,      \* history: when /login stored each token
    owner         \* the client whose analyze_user_tickers is running (0: none)

authVars == <<now, magic_links, writer, pc, tok, link, result, resp, session,
              cls, saveCount, savedEmail, successes, saveResult>>
advVars == <<data, rec, expl, conf>>
dbVars == <<users, user_tickers, nextUserId, nextTickerId, dbCall, dbBefore>>
cacheVars == <<clock, memory, market_cache, cpc, pending, cacheCall, lastSet>>
batchVars == <<today, lru, lastFetch, bpc, watch, bi, results, trace,
               recommendations, nextRecId, runs>>
mailVars == <<configured, mstate, mcaller, mto, mretry, mattempt, mlog, mres,
              bstate, brecips, bidx, bres, braised, bcalls>>
lruVars == <<asked, lruCall, fresh>>
startVars == <<env, spc, exitCode, steps, handled>>
webVars == <<wpc, webCall, sent, created, owner>>
appVars == <<lruVars, startVars, webVars>>
vars == <<authVars, advVars, dbVars, cacheVars, batchVars, mailVars, appVars>>
notAuth == <<advVars, dbVars, cacheVars, batchVars, mailVars, appVars>>
notAdv == <<authVars, dbVars, cacheVars, batchVars, mailVars, appVars>>
notDb == <<authVars, advVars, cacheVars, batchVars, mailVars, appVars>>
notCache == <<authVars, advVars, dbVars, batchVars, mailVars, appVars>>
notBatch == <<authVars, advVars, dbVars, cacheVars, mailVars, appVars>>
notMail == <<authVars, advVars, dbVars, cacheVars, batchVars, appVars>>
notLru == <<authVars, advVars, dbVars, cacheVars, mailVars, startVars, webVars>>
notStart == <<authVars, advVars, dbVars, cacheVars, batchVars, mailVars, lruVars,
              webVars>>
notWeb == <<advVars, cacheVars, mailVars, lruVars, startVars>>

(***************************************************************************)
(* Bounds of the model                                                     *)
(***************************************************************************)
MaxTime == 17
MaxSaves == 2

(***************************************************************************)
(* Magic links                                                             *)
(***************************************************************************)
DefaultExpiresMinutes == 15

Procs == {1, 2}
Tokens == {"t1"}
Emails == {"a@x.io", "b@x.io"}
None == "None"
NoToken == ""

Row(token, email, expires_at, used) ==
    [token |-> token, email |-> email, expires_at |-> expires_at, used |-> used]

\* A SELECT that forgets the used flag.
SelectAnyRow(table, token) ==
    {r \in table : r.token = token}

\* SELECT * FROM magic_links WHERE token = ? AND used = 0; fetchone()
SelectUnused(table, token) ==
    {r \in table : r.token = token /\ ~r.used}

\* An expiry check that is off by one minute.
IsExpiredLate(row, t) == t > row.expires_at + 1

\* datetime.now() > expires_at
IsExpired(row, t) == t > row.expires_at

\* An UPDATE that changes no row.
MarkNothing(table, token) == table

\* UPDATE magic_links SET used = 1 WHERE token = ?
MarkUsed(table, token) ==
    {IF r.token = token THEN [r EXCEPT !.used = TRUE] ELSE r : r \in table}

\* DELETE FROM magic_links WHERE expires_at < ?
DeleteExpired(table, t) == {r \in table : ~(r.expires_at < t)}

\* What a token is when it is presented: no row, a used row, an unused row past
\* its expiry, or a valid one.
TokenClass(table, token, t) ==
    LET rows == {r \in table : r.token = token} IN
    IF rows = {} THEN "unknown"
    ELSE IF \E r \in rows : r.used THEN "used"
    ELSE IF \E r \in rows : t > r.expires_at THEN "expired"
    ELSE "valid"

RespNone == [status |-> 0, body |-> ""]
RespInvalidLink == [status |-> 400, body |-> "Invalid link"]
RespInvalidOrExpired == [status |-> 400, body |-> "Invalid or expired link"]
RespRedirectBatch == [status |-> 302, body |-> "/batch-json"]

\* the tail of magic_login: the response for what verify_magic_link returned
MagicLoginResponse(email) ==
    IF email = None THEN RespInvalidOrExpired ELSE RespRedirectBatch

(***************************************************************************)
(* Recommendation engine (trade_advisor.py)                                *)
(*                                                                         *)
(* A snapshot is a function from keys to <<>> (null) or <<v>>; a key may   *)
(* also be missing.  Numbers are integers and the float comparisons of the *)
(* source are taken exactly: price <= low * 1.10 is                        *)
(* price * 100 <= low * 110.  A reason is modelled by its fixed text; the  *)
(* numbers interpolated into it are left out.                              *)
(***************************************************************************)
SixKeys == {"current_price", "52w_low", "52w_high", "dma_200", "dma_50", "rsi_14"}

\* data.get(key)
Get(d, key) == IF key \in DOMAIN d THEN d[key] ELSE <<>>

Min(a, b) == IF a < b THEN a ELSE b
Max(a, b) == IF a > b THEN a ELSE b
Abs(a) == IF a < 0 THEN -a ELSE a
When(c, n) == IF c THEN n ELSE 0
Say(c, reason) == IF c THEN <<reason>> ELSE <<>>

\* A guard that forgets the RSI.
MissingDataButRsi(d) ==
    \E k \in SixKeys \ {"rsi_14"} : Get(d, k) = <<>>

\* None in (price, low, high, dma_200, dma_50, rsi)
MissingData(d) ==
    \E k \in SixKeys : Get(d, k) = <<>>

\* A clamp that forgets the upper end.
ClampBelow(c) == Max(c, 0)

\* min(max(confidence, 0), 100)
Clamp(c) == Min(Max(c, 0), 100)

\* abs(price - dma_50) / dma_50 < 0.02, for dma_50 other than zero
Within2Percent(price, dma_50) ==
    IF dma_50 > 0 THEN Abs(price - dma_50) * 100 < 2 * dma_50 ELSE TRUE

\* A bonus that counts a price at its 50-day average as above it.
StrongTrendLoose(price, dma_200, dma_50) == price > dma_200 /\ price >= dma_50

\* price > dma_200 and price > dma_50
StrongTrend(price, dma_200, dma_50) == price > dma_200 /\ price > dma_50

Returned(v) == [raised |-> FALSE, value |-> v]
Raised == [raised |-> TRUE, value |-> 0]

\* calculate_confidence(action, data).  Comparing None with a number raises
\* TypeError, dividing by a zero dma_50 raises ZeroDivisionError.
calculate_confidence(action, d) ==
    IF MissingData(d) THEN Returned(0)
    ELSE IF \E k \in SixKeys : Get(d, k) = <<>> THEN Raised
    ELSE
    LET price == Get(d, "current_price")[1]
        low == Get(d, "52w_low")[1]
        high == Get(d, "52w_high")[1]
        dma_200 == Get(d, "dma_200")[1]
        dma_50 == Get(d, "dma_50")[1]
        rsi == Get(d, "rsi_14")[1]
    IN
    IF action = "BUY" THEN
        Returned(Clamp(
            When(price * 100 <= low * 110, 25)
          + When(price > dma_200, 20)
          + When(price >= dma_50, 15)
          + When(30 <= rsi /\ rsi <= 35, 25)
          + When(StrongTrend(price, dma_200, dma_50), 10)))
    ELSE IF action = "SELL" THEN
        Returned(Clamp(
            When(price * 100 >= high * 90, 40)
          + When(price < dma_200, 40)
          + When(rsi > 70, 20)
          + When(price < dma_200 /\ price < dma_50, 10)))
    ELSE IF dma_50 = 0 THEN Raised
    ELSE
        Returned(Clamp(
            50
          + When(price > dma_200 /\ 40 < rsi /\ rsi < 60, 15)
          + When(Within2Percent(price, dma_50), 10)
          - When(rsi < 30 \/ rsi > 70, 15)
          - When(price < dma_200, 10)))

Result(action, confidence, reasons) ==
    [raised |-> FALSE, action |-> action, confidence |-> confidence,
     reasons |-> reasons]
RaisedResult == [raised |-> TRUE, action |-> "", confidence |-> 0, reasons |-> <<>>]

\* A BUY rule that lets one of the four conditions go.
IsStrongBuyLoose(buy_score) == buy_score >= 80

\* buy_score >= 90
IsStrongBuy(buy_score) == buy_score >= 90

\* A strong-sell rule that asks for more than the two signals it names.
StrongSellAbove(sell_score, near_high, below_200) ==
    sell_score > 80 /\ near_high /\ below_200

\* sell_score >= 80 and near_high and below_200
StrongSell(sell_score, near_high, below_200) ==
    sell_score >= 80 /\ near_high /\ below_200

\* get_trade_recommendation(data)
get_trade_recommendation(d) ==
    IF MissingData(d) THEN
        Result("HOLD", 0, <<"Insufficient data to form a reliable signal">>)
    ELSE IF \E k \in SixKeys : Get(d, k) = <<>> THEN RaisedResult
    ELSE
    LET price == Get(d, "current_price")[1]
        low == Get(d, "52w_low")[1]
        high == Get(d, "52w_high")[1]
        dma_200 == Get(d, "dma_200")[1]
        dma_50 == Get(d, "dma_50")[1]
        rsi == Get(d, "rsi_14")[1]
        near_low == price * 100 <= low * 110
        near_high == price * 100 >= high * 90
        above_200 == price > dma_200
        above_50 == price >= dma_50
        below_200 == price < dma_200
        below_50 == price < dma_50
        rsi_zone == 30 <= rsi /\ rsi <= 35
        buy_score == When(near_low, 25) + When(above_200, 25)
                     + When(above_50, 20) + When(rsi_zone, 30)
        buy_reasons == Say(near_low, "Price near 52-week low")
                       \o Say(above_200, "Above 200-day MA")
                       \o Say(above_50, "At/Above 50-day MA")
                       \o Say(rsi_zone, "RSI in accumulation zone")
        sell_score == When(near_high, 40) + When(below_200, 40)
                      + When(rsi > 70, 20) + When(below_50, 10)
        sell_reasons == Say(near_high, "Price near 52-week high")
                        \o Say(below_200, "Below 200-day MA - bearish")
                        \o Say(rsi > 70, "RSI overbought")
                        \o Say(below_50, "Below 50-day MA")
        sell_conf == calculate_confidence("SELL", d).value
        hold_reasons ==
            IF buy_score > sell_score THEN
                <<"Partial buy setup - lacks full conviction">>
                \o Say(~near_low, "Not at attractive entry")
                \o Say(~rsi_zone, "RSI not in buy zone")
                \o Say(above_200, "Long-term trend intact")
            ELSE IF sell_score > buy_score THEN
                <<"Caution signals present - monitoring for deterioration">>
                \o Say(near_high, "Near resistance")
                \o Say(below_50, "Short-term weakness")
                \o Say(below_200, "Long-term downtrend")
                \o Say(rsi > 65, "Momentum extended")
            ELSE
                <<"Neutral technical setup - no strong signals">>
                \o Say(above_200, "Above 200-day MA - long-term trend positive")
                \o Say(40 <= rsi /\ rsi <= 60, "RSI neutral - balanced momentum")
        hold_conf == calculate_confidence("HOLD", d)
    IN
    IF IsStrongBuy(buy_score) THEN
        Result("BUY", calculate_confidence("BUY", d).value, buy_reasons)
    ELSE IF StrongSell(sell_score, near_high, below_200) THEN
        Result("SELL", sell_conf, sell_reasons)
    ELSE IF sell_score >= 50 /\ below_200 /\ below_50 /\ sell_conf >= 40 THEN
        Result("SELL", sell_conf,
               sell_reasons \o <<"Multiple bearish technical signals suggest weakness">>)
    ELSE IF rsi < 30 /\ below_200 /\ below_50 THEN
        Result("SELL", Max(sell_conf, 60),
               <<"Falling knife pattern detected",
                 "Price below both 50-day MA and 200-day MA",
                 "RSI severely oversold - suggesting panic selling",
                 "Recommendation: Avoid catching falling knives - wait for stabilization">>)
    ELSE IF hold_conf.raised THEN RaisedResult
    ELSE
        Result("HOLD", hold_conf.value,
               IF hold_reasons = <<>>
               THEN <<"No strong signals in either direction - wait for clearer setup">>
               ELSE hold_reasons)

\* An accessor that always answers with its default.
explain_default(d) ==
    [raised |-> FALSE, reasons |-> <<"Insufficient data to generate recommendation">>]

\* explain_trade_recommendation(data): result.get("reasons", [...])
explain_trade_recommendation(d) ==
    LET r == get_trade_recommendation(d) IN
    IF r.raised THEN [raised |-> TRUE, reasons |-> <<>>]
    ELSE IF "reasons" \in DOMAIN r THEN [raised |-> FALSE, reasons |-> r.reasons]
    ELSE [raised |-> FALSE, reasons |-> <<"Insufficient data to generate recommendation">>]

\* The engine's variables while the magic-link machine runs.
NoSnapshot == [k \in {} |-> <<>>]

\* init_db(): the users and user_tickers tables are empty, no call made yet.
NoCall == [op |-> "none", user_id |-> 0, email |-> "", tickers |-> <<>>,
           ret |-> <<>>]
DbIdle ==
    /\ users = {}
    /\ user_tickers = {}
    /\ nextUserId = 1
    /\ nextTickerId = 1
    /\ dbCall = NoCall
    /\ dbBefore = <<{}, {}>>

\* cache.py at import: an empty _MEMORY_CACHE in each process, an empty
\* market_cache table, no call made yet.
CacheProcs == {1, 2}
CacheTickers == {"AAPL"}
NoCacheCall == [op |-> "none", proc |-> 0, ticker |-> "", ret |-> <<>>,
                ts |-> 0, at |-> 0, tier |-> "none"]
CacheIdle ==
    /\ clock = 0
    /\ memory = [p \in CacheProcs |-> [k \in CacheTickers |-> <<>>]]
    /\ market_cache = {}
    /\ cpc = [p \in CacheProcs |-> "idle"]
    /\ pending = [p \in CacheProcs |-> <<>>]
    /\ cacheCall = NoCacheCall
    /\ lastSet = <<>>

\* A process that has fetched nothing and analysed nothing, an empty
\* recommendations table.
NoFetch == [symbol |-> <<>>, kind |-> "none", rows |-> 0, n |-> 0,
            raised |-> FALSE, value |-> <<>>]
NoUser == [id |-> 0, tickers |-> <<>>]
BatchIdle ==
    /\ today = 0
    /\ lru = <<>>
    /\ lastFetch = NoFetch
    /\ bpc = "idle"
    /\ watch = NoUser
    /\ bi = 1
    /\ results = <<>>
    /\ trace = <<>>
    /\ recommendations = {}
    /\ nextRecId = 1
    /\ runs = 0

\* email_utils.py at import, nothing sent yet.
NoResults == [success |-> 0, failed |-> 0, failed_addresses |-> <<>>]
MailAtRest ==
    /\ mstate = "idle"
    /\ mcaller = "none"
    /\ mto = <<>>
    /\ mretry = 0
    /\ mattempt = 0
    /\ mlog = <<>>
    /\ mres = "none"
    /\ bstate = "idle"
    /\ brecips = <<>>
    /\ bidx = 1
    /\ bres = NoResults
    /\ braised = <<>>
    /\ bcalls = <<>>
MailIdle ==
    /\ configured = TRUE
    /\ MailAtRest

\* No call of fetch_snapshot yet, a process that has not started, no
\* request yet.
NoLruCall == [symbol |-> -1, requested |-> FALSE, value |-> <<>>,
              expected |-> <<>>, recent |-> FALSE]
NoWebCall == [seq |-> 0, route |-> "none", client |-> 0, status |-> 0,
              body |-> "", hadSession |-> FALSE, email |-> "", token |-> ""]
EnvNames == {"FLASK_SECRET", "EMAIL_HOST", "EMAIL_PORT", "EMAIL_USER",
             "EMAIL_PASSWORD", "EODHD_API_KEY", "RENDER"}
NoEnv == [k \in EnvNames |-> ""]
LruIdle ==
    /\ asked = <<>>
    /\ lruCall = NoLruCall
    /\ fresh = 1
StartIdle ==
    /\ env = NoEnv
    /\ spc = "off"
    /\ exitCode = <<>>
    /\ steps = <<>>
    /\ handled = 0
WebIdle ==
    /\ wpc = [p \in Procs |-> "idle"]
    /\ webCall = NoWebCall
    /\ sent = {}
    /\ created = [t \in Tokens |-> <<>>]
    /\ owner = 0
AppIdle == LruIdle /\ StartIdle /\ WebIdle

\* The magic-link machine at rest, while another machine runs.
AuthIdle ==
    /\ now = 0
    /\ magic_links = {}
    /\ writer = 0
    /\ pc = [p \in Procs |-> "idle"]
    /\ tok = [p \in Procs |-> NoToken]
    /\ link = [p \in Procs |-> {}]
    /\ result = [p \in Procs |-> None]
    /\ resp = [p \in Procs |-> RespNone]
    /\ session = [p \in Procs |-> None]
    /\ cls = [p \in Procs |-> "none"]
    /\ saveCount = [t \in Tokens |-> 0]
    /\ savedEmail = [t \in Tokens |-> None]
    /\ successes = [t \in Tokens |-> <<>>]
    /\ saveResult = TRUE

\* The engine at rest, while another machine runs.
AdvIdle ==
    /\ data = NoSnapshot
    /\ rec = <<>>
    /\ expl = <<>>
    /\ conf = <<>>

\* An empty database, idle workers, no session.
InitAuth ==
    /\ now = 0
    /\ magic_links = {}
    /\ writer = 0
    /\ pc = [p \in Procs |-> "idle"]
    /\ tok = [p \in Procs |-> NoToken]
    /\ link = [p \in Procs |-> {}]
    /\ result = [p \in Procs |-> None]
    /\ resp = [p \in Procs |-> RespNone]
    /\ session = [p \in Procs |-> None]
    /\ cls = [p \in Procs |-> "none"]
    /\ saveCount = [t \in Tokens |-> 0]
    /\ savedEmail = [t \in Tokens |-> None]
    /\ successes = [t \in Tokens |-> <<>>]
    /\ saveResult = TRUE
    /\ data = NoSnapshot
    /\ rec = <<>>
    /\ expl = <<>>
    /\ conf = <<>>
    /\ DbIdle
    /\ CacheIdle
    /\ BatchIdle
    /\ MailIdle
    /\ AppIdle

\* save_magic_link(token, email, expires_minutes): one INSERT and its commit.
\* A second row with the same primary key raises, which is caught: False.
SaveMagicLink(token, email, expires_minutes) ==
    /\ writer = 0
    /\ saveCount[token] < MaxSaves
    /\ IF \E r \in magic_links : r.token = token
       THEN /\ saveResult' = FALSE
            /\ UNCHANGED <<magic_links, saveCount, savedEmail>>
       ELSE /\ magic_links' = magic_links \cup
                                {Row(token, email, now + expires_minutes, FALSE)}
            /\ saveCount' = [saveCount EXCEPT ![token] = @ + 1]
            /\ savedEmail' = [savedEmail EXCEPT ![token] = email]
            /\ saveResult' = TRUE
    /\ UNCHANGED <<notAuth, now, writer, pc, tok, link, result, resp, session, cls,
                   successes>>

\* The end of a request with verify_magic_link returning None.
Fail(p, token, r) ==
    /\ pc' = [pc EXCEPT ![p] = "done"]
    /\ tok' = [tok EXCEPT ![p] = token]
    /\ result' = [result EXCEPT ![p] = None]
    /\ resp' = [resp EXCEPT ![p] = r]

\* GET /magic-login?token=...: up to the SELECT of verify_magic_link.
MagicLogin(p, token) ==
    /\ pc[p] \in {"idle", "done"}
    /\ IF token = NoToken
       THEN /\ Fail(p, token, RespInvalidLink)
            /\ link' = [link EXCEPT ![p] = {}]
            /\ cls' = [cls EXCEPT ![p] = "none"]
       ELSE LET l == SelectUnused(magic_links, token) IN
            /\ cls' = [cls EXCEPT ![p] = TokenClass(magic_links, token, now)]
            /\ link' = [link EXCEPT ![p] = l]
            /\ IF l = {}
               THEN Fail(p, token, MagicLoginResponse(None))
               ELSE /\ pc' = [pc EXCEPT ![p] = "check"]
                    /\ tok' = [tok EXCEPT ![p] = token]
                    /\ result' = [result EXCEPT ![p] = None]
                    /\ resp' = [resp EXCEPT ![p] = RespNone]
    /\ UNCHANGED <<notAuth, now, magic_links, writer, session, saveCount, savedEmail,
                   successes, saveResult>>

\* verify_magic_link: the expiry check.
CheckExpiry(p) ==
    /\ pc[p] = "check"
    /\ IF \E r \in link[p] : IsExpired(r, now)
       THEN Fail(p, tok[p], MagicLoginResponse(None))
       ELSE /\ pc' = [pc EXCEPT ![p] = "update"]
            /\ UNCHANGED <<tok, result, resp>>
    /\ UNCHANGED <<notAuth, now, magic_links, writer, link, session, cls, saveCount,
                   savedEmail, successes, saveResult>>

\* verify_magic_link: the UPDATE opens a write transaction on this connection;
\* SQLite lets one connection write at a time, the others keep reading the
\* committed rows.
Update(p) ==
    /\ pc[p] = "update"
    /\ writer = 0
    /\ writer' = p
    /\ pc' = [pc EXCEPT ![p] = "commit"]
    /\ UNCHANGED <<notAuth, now, magic_links, tok, link, result, resp, session, cls,
                   saveCount, savedEmail, successes, saveResult>>

\* verify_magic_link: commit, return link['email']; magic_login then sets the
\* session and redirects.
Commit(p) ==
    /\ pc[p] = "commit"
    /\ writer = p
    /\ LET email == (CHOOSE r \in link[p] : TRUE).email IN
       /\ magic_links' = MarkUsed(magic_links, tok[p])
       /\ writer' = 0
       /\ result' = [result EXCEPT ![p] = email]
       /\ session' = [session EXCEPT ![p] = email]
       /\ resp' = [resp EXCEPT ![p] = MagicLoginResponse(email)]
       /\ successes' = [successes EXCEPT ![tok[p]] = Append(@, email)]
    /\ pc' = [pc EXCEPT ![p] = "done"]
    /\ UNCHANGED <<notAuth, now, tok, link, cls, saveCount, savedEmail, saveResult>>

\* cleanup_expired_links(): one DELETE and its commit.
CleanupExpiredLinks ==
    /\ writer = 0
    /\ magic_links' = DeleteExpired(magic_links, now)
    /\ UNCHANGED <<notAuth, now, writer, pc, tok, link, result, resp, session, cls,
                   saveCount, savedEmail, successes, saveResult>>

\* A minute passes.
Tick ==
    /\ now < MaxTime
    /\ now' = now + 1
    /\ UNCHANGED <<notAuth, magic_links, writer, pc, tok, link, result, resp, session, cls, saveCount, savedEmail, successes, saveResult>>

NextAuth ==
    \/ \E t \in Tokens, e \in Emails : SaveMagicLink(t, e, DefaultExpiresMinutes)
    \/ \E p \in Procs, t \in Tokens \cup {NoToken} : MagicLogin(p, t)
    \/ \E p \in Procs : CheckExpiry(p)
    \/ \E p \in Procs : Update(p)
    \/ \E p \in Procs : Commit(p)
    \/ CleanupExpiredLinks
    \/ Tick

\* Requests handled by concurrent workers, their steps interleaved.
SpecAuth == InitAuth /\ [][NextAuth]_vars


(***************************************************************************)
(* The engine applied to snapshots of a grid that has both sides of every  *)
(* threshold of the rules, and each field null or missing.                 *)
(***************************************************************************)
Prices == {0, 90, 100, 110, 111}
Lows == {100}
Highs == {100, 120, 123}
Dmas == {0, 100, 110, 120}
Rsis == {29, 30, 35, 36, 41, 66, 71}
Actions == {"BUY", "SELL", "HOLD", "ERROR"}

Opt(S) == {<<>>} \cup {<<v>> : v \in S}

Snapshots ==
    {[k \in SixKeys |->
        CASE k = "current_price" -> p
          [] k = "52w_low" -> l
          [] k = "52w_high" -> h
          [] k = "dma_200" -> d2
          [] k = "dma_50" -> d5
          [] OTHER -> r] :
     p \in Opt(Prices), l \in Opt(Lows), h \in Opt(Highs),
     d2 \in Opt(Dmas), d5 \in Opt(Dmas), r \in Opt(Rsis)}

\* The same snapshot with its null fields left out of the dict.
WithoutNulls(d) == [k \in {x \in DOMAIN d : d[x] # <<>>} |-> d[k]]

InitAdvisor ==
    /\ data \in Snapshots \cup {WithoutNulls(d) : d \in Snapshots}
    /\ rec = <<>>
    /\ expl = <<>>
    /\ conf = <<>>
    /\ now = 0
    /\ magic_links = {}
    /\ writer = 0
    /\ pc = [p \in Procs |-> "idle"]
    /\ tok = [p \in Procs |-> NoToken]
    /\ link = [p \in Procs |-> {}]
    /\ result = [p \in Procs |-> None]
    /\ resp = [p \in Procs |-> RespNone]
    /\ session = [p \in Procs |-> None]
    /\ cls = [p \in Procs |-> "none"]
    /\ saveCount = [t \in Tokens |-> 0]
    /\ savedEmail = [t \in Tokens |-> None]
    /\ successes = [t \in Tokens |-> <<>>]
    /\ saveResult = TRUE
    /\ DbIdle
    /\ CacheIdle
    /\ BatchIdle
    /\ MailIdle
    /\ AppIdle

\* result = get_trade_recommendation(data)
Recommend ==
    /\ rec' = <<get_trade_recommendation(data)>>
    /\ UNCHANGED <<notAdv, data, expl, conf>>

\* explain_trade_recommendation(data)
Explain ==
    /\ expl' = <<explain_trade_recommendation(data)>>
    /\ UNCHANGED <<notAdv, data, rec, conf>>

\* calculate_confidence(action, data)
Confidence(action) ==
    /\ conf' = <<action, calculate_confidence(action, data)>>
    /\ UNCHANGED <<notAdv, data, rec, expl>>

NextAdvisor ==
    \/ Recommend
    \/ Explain
    \/ \E a \in Actions : Confidence(a)

SpecAdvisor == InitAdvisor /\ [][NextAdvisor]_vars

\* Calls made one after the other: a request runs to its end before the next
\* request, save or cleanup starts.
InFlight(p) == pc[p] \in {"check", "update", "commit"}

NextAuthSeq ==
    \/ \E t \in Tokens, e \in Emails :
          /\ \A q \in Procs : ~InFlight(q)
          /\ SaveMagicLink(t, e, DefaultExpiresMinutes)
    \/ \E p \in Procs, t \in Tokens \cup {NoToken} :
          /\ \A q \in Procs : ~InFlight(q)
          /\ MagicLogin(p, t)
    \/ \E p \in Procs : CheckExpiry(p)
    \/ \E p \in Procs : Update(p)
    \/ \E p \in Procs : Commit(p)
    \/ (\A q \in Procs : ~InFlight(q)) /\ CleanupExpiredLinks
    \/ Tick

SpecAuthSeq == InitAuth /\ [][NextAuthSeq]_vars

(***************************************************************************)
(* Claims about magic links                                                *)
(***************************************************************************)

\* C1: when two requests present the same valid, unexpired, unused token
\* concurrently (both SELECTs returned the same unused row), at most one of
\* them gets the email from verify_magic_link; the other gets None.
C1_AtMostOneConcurrentVerifySucceeds ==
    \A p, q \in Procs :
        ( /\ p # q
          /\ pc[p] = "done" /\ pc[q] = "done"
          /\ tok[p] # NoToken /\ tok[p] = tok[q]
          /\ cls[p] = "valid" /\ cls[q] = "valid"
          /\ link[p] # {} /\ link[p] = link[q] )
        => ~(result[p] # None /\ result[q] # None)

\* C2: for a token saved once, over any sequence of verify and cleanup calls,
\* verification succeeds at most once, and the successful one returns the
\* email the token was saved with.
C2_VerifySucceedsAtMostOnce ==
    \A t \in Tokens :
        saveCount[t] = 1 =>
            /\ Len(successes[t]) <= 1
            /\ \A i \in 1..Len(successes[t]) : successes[t][i] = savedEmail[t]

\* C2 happens: the token was saved once, one verify succeeded and a later
\* verify of the same, now used, token returned None.
C2_Witness ==
    \E t \in Tokens, p \in Procs :
        /\ saveCount[t] = 1
        /\ Len(successes[t]) = 1
        /\ pc[p] = "done" /\ tok[p] = t /\ cls[p] = "used" /\ result[p] = None

\* C3: a request presenting an existing, unused token whose expires_at has
\* passed gets None from verify_magic_link and the invalid-link page, and no
\* step of such a request changes the session.
C3_ExpiredTokenNeverVerifies ==
    /\ [](\A p \in Procs :
            (pc[p] = "done" /\ cls[p] = "expired") =>
                (result[p] = None /\ resp[p].status = 400))
    /\ [][\A p \in Procs : cls'[p] = "expired" => session'[p] = session[p]]_vars

\* C3 happens: a request on an unused token past its expiry has been answered.
C3_Witness ==
    \E p \in Procs :
        /\ pc[p] = "done" /\ cls[p] = "expired" /\ result[p] = None
        /\ \E r \in magic_links : r.token = tok[p] /\ ~r.used /\ now > r.expires_at

\* C4: two requests with a non-empty token that is unknown, already used or
\* expired get the same response, whichever of the three it is.
C4_RejectionsIndistinguishable ==
    \A p, q \in Procs :
        ( /\ pc[p] = "done" /\ pc[q] = "done"
          /\ cls[p] \in {"unknown", "used", "expired"}
          /\ cls[q] \in {"unknown", "used", "expired"} )
        => resp[p] = resp[q]

\* C4 happens: one answered request presented an expired token, the other an
\* unknown or a used one.
C4_Witness ==
    /\ pc[1] = "done" /\ pc[2] = "done"
    /\ cls[1] = "expired"
    /\ cls[2] \in {"unknown", "used"}
    /\ resp[1] = RespInvalidOrExpired

(***************************************************************************)
(* Claims about the recommendation engine                                  *)
(***************************************************************************)
Present(k) == k \in DOMAIN data /\ data[k] # <<>>
AnyAbsent == \E k \in SixKeys : ~Present(k)
Complete == \A k \in SixKeys : Present(k)
Price == data["current_price"][1]
Low52 == data["52w_low"][1]
High52 == data["52w_high"][1]
Dma200 == data["dma_200"][1]
Dma50 == data["dma_50"][1]
Rsi == data["rsi_14"][1]

\* C5: with at least one of the six inputs absent (missing key or null),
\* get_trade_recommendation returns exactly HOLD, confidence 0 and the single
\* insufficient-data reason.
C5_InsufficientDataHold ==
    (rec # <<>> /\ AnyAbsent) =>
        rec[1] = [raised |-> FALSE, action |-> "HOLD", confidence |-> 0,
                  reasons |-> <<"Insufficient data to form a reliable signal">>]

\* C5 happens: only the RSI is absent, the key missing from the dict.
C5_Witness ==
    /\ rec # <<>>
    /\ "rsi_14" \notin DOMAIN data
    /\ \A k \in SixKeys \ {"rsi_14"} : Present(k)
    /\ Price > Dma200 /\ Price >= Dma50 /\ Price * 100 <= Low52 * 110

\* C6: a complete snapshot with rsi < 30, price < dma_200 and price < dma_50
\* gets SELL with confidence at least 60.
C6_FallingKnifeSellAtLeast60 ==
    (rec # <<>> /\ Complete /\ Rsi < 30 /\ Price < Dma200 /\ Price < Dma50) =>
        (rec[1].action = "SELL" /\ rec[1].confidence >= 60)

AllFourBuyConditions ==
    /\ Price * 100 <= Low52 * 110
    /\ Price > Dma200
    /\ Price >= Dma50
    /\ 30 <= Rsi /\ Rsi <= 35

BuyScoreOfData ==
    (IF Price * 100 <= Low52 * 110 THEN 25 ELSE 0)
    + (IF Price > Dma200 THEN 25 ELSE 0)
    + (IF Price >= Dma50 THEN 20 ELSE 0)
    + (IF 30 <= Rsi /\ Rsi <= 35 THEN 30 ELSE 0)

\* C7: for a complete snapshot the action is BUY exactly when buy_score >= 90,
\* which is exactly when all four conditions hold: price <= 1.10 * low,
\* price > dma_200, price >= dma_50 and 30 <= rsi <= 35.
C7_BuyIffAllFour ==
    (rec # <<>> /\ Complete) =>
        /\ (rec[1].action = "BUY") <=> (BuyScoreOfData >= 90)
        /\ (BuyScoreOfData >= 90) <=> AllFourBuyConditions

\* C7 happens: a BUY at the upper RSI boundary with the price on the 50-day MA.
C7_Witness ==
    /\ rec # <<>> /\ Complete
    /\ rec[1].action = "BUY"
    /\ Rsi = 35 /\ Price = Dma50

\* C8: a complete snapshot with price >= 0.90 * high and price < dma_200 gets
\* SELL, with the confidence calculate_confidence("SELL", snapshot) returns,
\* which is at least 80.
C8_StrongSell ==
    (rec # <<>> /\ Complete /\ Price * 100 >= High52 * 90 /\ Price < Dma200) =>
        /\ rec[1].action = "SELL"
        /\ rec[1].confidence >= 80
        /\ (conf # <<>> /\ conf[1] = "SELL") =>
               (~conf[2].raised /\ rec[1].confidence = conf[2].value)

\* C8 happens: near the high and below the 200-day MA with no other bearish
\* signal, so that only the strong-sell rule applies; confidence 80.
C8_Witness ==
    /\ rec # <<>> /\ Complete
    /\ Price * 100 >= High52 * 90 /\ Price < Dma200
    /\ Price >= Dma50 /\ Rsi <= 70
    /\ rec[1].action = "SELL"
    /\ conf = <<"SELL", [raised |-> FALSE, value |-> 80]>>

\* C9: every confidence returned, by get_trade_recommendation and by
\* calculate_confidence for any action, is an integer in 0..100, and it is 0
\* whenever one of the six inputs is absent.
C9_ConfidenceInRange ==
    /\ (rec # <<>> /\ ~rec[1].raised) =>
           /\ rec[1].confidence \in 0..100
           /\ AnyAbsent => rec[1].confidence = 0
    /\ (conf # <<>> /\ ~conf[2].raised) =>
           /\ conf[2].value \in 0..100
           /\ AnyAbsent => conf[2].value = 0

\* C9 happens: every bearish signal is present, the SELL weights add up to
\* more than 100 and the confidence returned is 100.
C9_Witness ==
    /\ rec # <<>> /\ Complete
    /\ Price * 100 >= High52 * 90 /\ Price < Dma200 /\ Price < Dma50 /\ Rsi > 70
    /\ rec[1].confidence = 100
    /\ conf = <<"SELL", [raised |-> FALSE, value |-> 100]>>

\* C10: explain_trade_recommendation returns exactly the reasons list that
\* get_trade_recommendation returns for the same snapshot (and raises where
\* that raises), and the list is never empty.
C10_ExplainReturnsReasons ==
    /\ (rec # <<>> /\ ~rec[1].raised) => Len(rec[1].reasons) > 0
    /\ (expl # <<>> /\ ~expl[1].raised) => Len(expl[1].reasons) > 0
    /\ (rec # <<>> /\ expl # <<>>) =>
           /\ expl[1].raised = rec[1].raised
           /\ expl[1].reasons = rec[1].reasons

\* C10 happens: both were called on a complete snapshot that gets a HOLD.
C10_Witness ==
    /\ rec # <<>> /\ expl # <<>> /\ Complete
    /\ rec[1].action = "HOLD"
    /\ Len(expl[1].reasons) >= 2


(***************************************************************************)
(* Users and watchlists: database.py                                       *)
(***************************************************************************)
MaxUsers == 2
MaxTickerIds == 4

UserIds == 1..MaxUsers
UserNames == {"Al"}
UserEmails == {"a@x.io", "A@x.io"}
RawTickers == {"aapl", "AAPL", "msft"}
TickerLists == {<<>>, <<"aapl">>, <<"AAPL", "msft">>, <<"aapl", "AAPL">>}

\* str.upper() on the ticker strings of the model.
Upper(t) ==
    CASE t = "aapl" -> "AAPL"
      [] t = "msft" -> "MSFT"
      [] OTHER -> t

\* A table declared without UNIQUE(user_id, ticker).
NoUniqueTicker(table, user_id, ticker) == FALSE

\* UNIQUE(user_id, ticker) of user_tickers: the INSERT of this pair raises
\* sqlite3.IntegrityError.
ViolatesUniqueTicker(table, user_id, ticker) ==
    \E r \in table : r.user_id = user_id /\ r.ticker = ticker

\* email TEXT UNIQUE of users (SQLite compares TEXT byte by byte).
ViolatesUniqueEmail(table, email) ==
    \E u \in table : u.email = email

\* The loop of INSERTs of create_user inside its transaction: the rows after
\* it, or ok = FALSE when one INSERT raises sqlite3.IntegrityError.
RECURSIVE InsertTickers(_, _, _, _)
InsertTickers(table, nextId, user_id, tickers) ==
    IF tickers = <<>> THEN [ok |-> TRUE, rows |-> table, nextId |-> nextId]
    ELSE IF ViolatesUniqueTicker(table, user_id, Upper(Head(tickers)))
    THEN [ok |-> FALSE, rows |-> table, nextId |-> nextId]
    ELSE InsertTickers(
             table \cup {[id |-> nextId, user_id |-> user_id,
                          ticker |-> Upper(Head(tickers))]},
             nextId + 1, user_id, Tail(tickers))

InitDb ==
    /\ AuthIdle
    /\ AdvIdle
    /\ DbIdle
    /\ CacheIdle
    /\ BatchIdle
    /\ MailIdle
    /\ AppIdle

\* create_user(name, email, tickers): one transaction. Any IntegrityError
\* (the email, or a watchlist row) ends it without a commit: None.
CreateUser(name, email, tickers) ==
    /\ nextUserId <= MaxUsers
    /\ nextTickerId + Len(tickers) - 1 <= MaxTickerIds
    /\ LET ins == InsertTickers(user_tickers, nextTickerId, nextUserId, tickers)
           ok == ~ViolatesUniqueEmail(users, email) /\ ins.ok
       IN  /\ users' = IF ok
                       THEN users \cup {[id |-> nextUserId, name |-> name,
                                         email |-> email]}
                       ELSE users
           /\ nextUserId' = IF ok THEN nextUserId + 1 ELSE nextUserId
           /\ user_tickers' = IF ok THEN ins.rows ELSE user_tickers
           /\ nextTickerId' = IF ok THEN ins.nextId ELSE nextTickerId
           /\ dbCall' = [op |-> "create_user", user_id |-> 0, email |-> email,
                         tickers |-> tickers,
                         ret |-> IF ok THEN <<nextUserId>> ELSE <<>>]
    /\ dbBefore' = <<users, user_tickers>>
    /\ UNCHANGED notDb

\* add_ticker_to_user(user_id, ticker): INSERT of the upper-cased ticker and
\* commit, True; IntegrityError, False.
AddTicker(user_id, ticker) ==
    /\ nextTickerId <= MaxTickerIds
    /\ LET ok == ~ViolatesUniqueTicker(user_tickers, user_id, Upper(ticker))
       IN  /\ user_tickers' = IF ok
                              THEN user_tickers \cup
                                       {[id |-> nextTickerId, user_id |-> user_id,
                                         ticker |-> Upper(ticker)]}
                              ELSE user_tickers
           /\ nextTickerId' = IF ok THEN nextTickerId + 1 ELSE nextTickerId
           /\ dbCall' = [op |-> "add_ticker_to_user", user_id |-> user_id,
                         email |-> "", tickers |-> <<ticker>>, ret |-> <<ok>>]
    /\ dbBefore' = <<users, user_tickers>>
    /\ UNCHANGED <<notDb, users, nextUserId>>

\* remove_ticker_from_user(user_id, ticker): DELETE of the rows of that user
\* with the upper-cased ticker, commit, rowcount > 0.
RemoveTicker(user_id, ticker) ==
    /\ LET gone == {r \in user_tickers :
                        r.user_id = user_id /\ r.ticker = Upper(ticker)}
       IN  /\ user_tickers' = user_tickers \ gone
           /\ dbCall' = [op |-> "remove_ticker_from_user", user_id |-> user_id,
                         email |-> "", tickers |-> <<ticker>>,
                         ret |-> <<Cardinality(gone) > 0>>]
    /\ dbBefore' = <<users, user_tickers>>
    /\ UNCHANGED <<notDb, users, nextUserId, nextTickerId>>

\* COLLATE NOCASE of SQLite folds the ASCII letters: the fold of the email
\* strings of the model.
NoCase(e) ==
    CASE e = "A@x.io" -> "a@x.io"
      [] OTHER -> e

\* SELECT * FROM users WHERE email = ? COLLATE NOCASE: the rows that match.
MatchingUsers(table, email) ==
    {u \in table : NoCase(u.email) = NoCase(email)}

\* SELECT ticker FROM user_tickers WHERE user_id = ?: the tickers of the
\* rows of that user, in the order of their ids.
RECURSIVE TickersOf(_, _)
TickersOf(table, user_id) ==
    LET rows == {r \in table : r.user_id = user_id}
    IN  IF rows = {} THEN <<>>
        ELSE LET first == CHOOSE r \in rows : \A q \in rows : r.id <= q.id
             IN  <<first.ticker>> \o TickersOf(table \ {first}, user_id)

\* get_user_by_email(email): what the call can return. fetchone() takes the
\* first matching row of a SELECT without ORDER BY, so any matching row; no
\* match is None (the empty set of dicts is modelled by {<<>>}).
get_user_by_email(email) ==
    IF MatchingUsers(users, email) = {} THEN {<<>>}
    ELSE {<<[id |-> u.id, name |-> u.name, email |-> u.email,
             tickers |-> TickersOf(user_tickers, u.id)]>> :
              u \in MatchingUsers(users, email)}

\* The upper-cased tickers of a list, as create_user stores them.
UpperAll(tickers) == [i \in 1..Len(tickers) |-> Upper(tickers[i])]

\* get_user_by_email(email) is called: the tables are read only.
GetUserByEmail(email) ==
    /\ \E r \in get_user_by_email(email) :
           dbCall' = [op |-> "get_user_by_email",
                      user_id |-> IF r = <<>> THEN 0 ELSE r[1].id,
                      email |-> email,
                      tickers |-> IF r = <<>> THEN <<>> ELSE r[1].tickers,
                      ret |-> IF r = <<>> THEN <<>> ELSE <<r[1].id>>]
    /\ dbBefore' = <<users, user_tickers>>
    /\ UNCHANGED <<notDb, users, user_tickers, nextUserId, nextTickerId>>

NextDb ==
    \/ \E n \in UserNames, e \in UserEmails, ts \in TickerLists : CreateUser(n, e, ts)
    \/ \E u \in UserIds, t \in RawTickers : AddTicker(u, t)
    \/ \E u \in UserIds, t \in RawTickers : RemoveTicker(u, t)
    \/ \E e \in UserEmails : GetUserByEmail(e)

SpecDb == InitDb /\ [][NextDb]_vars

\* C11: a watchlist never holds two rows for the same user and upper-cased
\* ticker; add_ticker_to_user on a pair already present returns False and
\* changes nothing, on an absent pair it returns True and adds exactly that
\* row; remove_ticker_from_user on a present pair returns True and deletes
\* exactly that row, on an absent pair it returns False and changes nothing.
C11_WatchlistUnique ==
    LET u == dbCall.user_id
        t == Upper(dbCall.tickers[1])
        old == dbBefore[2]
        present == \E r \in old : r.user_id = u /\ r.ticker = t
    IN  /\ \A r1, r2 \in user_tickers :
               (r1.user_id = r2.user_id /\ Upper(r1.ticker) = Upper(r2.ticker))
                   => r1 = r2
        /\ \A r \in user_tickers : r.ticker = Upper(r.ticker)
        /\ dbCall.op = "add_ticker_to_user" =>
               IF present
               THEN dbCall.ret = <<FALSE>> /\ user_tickers = old
               ELSE /\ dbCall.ret = <<TRUE>>
                    /\ \E r \in user_tickers :
                           /\ r \notin old
                           /\ r.user_id = u /\ r.ticker = t
                           /\ user_tickers = old \cup {r}
        /\ dbCall.op = "remove_ticker_from_user" =>
               IF present
               THEN /\ dbCall.ret = <<TRUE>>
                    /\ \E r \in old :
                           /\ r.user_id = u /\ r.ticker = t
                           /\ user_tickers = old \ {r}
               ELSE dbCall.ret = <<FALSE>> /\ user_tickers = old

\* C11 happens: "aapl" is added to a watchlist that already holds "AAPL"
\* next to another ticker, and the call is refused.
C11_Witness ==
    /\ dbCall.op = "add_ticker_to_user"
    /\ dbCall.tickers = <<"aapl">>
    /\ dbCall.ret = <<FALSE>>
    /\ \E r1, r2 \in user_tickers :
           /\ r1.user_id = dbCall.user_id /\ r1.ticker = "AAPL"
           /\ r2.user_id = dbCall.user_id /\ r2.ticker = "MSFT"

\* C12: create_user returns None exactly when the email already exists in
\* users; otherwise it returns the new id and every supplied ticker,
\* upper-cased, is in that user's watchlist; when it returns None no user and
\* no watchlist row has been added.
C12_CreateUserNoneIffEmailExists ==
    dbCall.op = "create_user" =>
        LET existed == \E r \in dbBefore[1] : r.email = dbCall.email
        IN  /\ (dbCall.ret = <<>>) <=> existed
            /\ dbCall.ret # <<>> =>
                   /\ \E r \in users : r.id = dbCall.ret[1] /\ r.email = dbCall.email
                   /\ \A i \in 1..Len(dbCall.tickers) :
                          \E r \in user_tickers :
                              /\ r.user_id = dbCall.ret[1]
                              /\ r.ticker = Upper(dbCall.tickers[i])
            /\ dbCall.ret = <<>> =>
                   users = dbBefore[1] /\ user_tickers = dbBefore[2]


(***************************************************************************)
(* End-of-day cache: market_data/cache.py                                  *)
(***************************************************************************)
TicksPerDay == 2
DaysPerYear == 2
MaxClock == 5

CachePrices == {<<>>, <<100>>}
CacheData == {[current_price |-> x] : x \in CachePrices}

\* time.localtime(t): the year and the day of the year of an instant.
LocalTime(t) ==
    [tm_year |-> t \div (TicksPerDay * DaysPerYear),
     tm_yday |-> ((t \div TicksPerDay) % DaysPerYear) + 1]

\* An expiry test that looks at the day of the year only.
IsYdayExpired(ts, at) ==
    LocalTime(at).tm_yday # LocalTime(ts).tm_yday

\* _is_eod_expired(ts), called at instant at.
is_eod_expired(ts, at) ==
    \/ LocalTime(at).tm_yday # LocalTime(ts).tm_yday
    \/ LocalTime(at).tm_year # LocalTime(ts).tm_year

\* json.dumps / json.loads of a snapshot: None is written as null, a float
\* with its decimal point.
JsonNumber(n) == CASE n = 100 -> "100.0" [] OTHER -> "NaN"
ParseNumber(t) == CASE t = "100.0" -> 100 [] OTHER -> -1
Dumps(d) == [k \in DOMAIN d |-> IF d[k] = <<>> THEN "null" ELSE JsonNumber(d[k][1])]
Loads(payload) ==
    [k \in DOMAIN payload |->
        IF payload[k] = "null" THEN <<>> ELSE <<ParseNumber(payload[k])>>]

\* INSERT INTO a table without the primary key on ticker.
InsertRow(table, row) == table \cup {row}

\* INSERT OR REPLACE INTO market_cache: ticker is the primary key, the row
\* in conflict is deleted before the new one is inserted.
Upsert(table, row) ==
    {r \in table : r.ticker # row.ticker} \cup {row}

\* SELECT payload, timestamp FROM market_cache WHERE ticker = ?
SelectPayload(table, ticker) == {r \in table : r.ticker = ticker}

InitCache ==
    /\ AuthIdle
    /\ AdvIdle
    /\ DbIdle
    /\ CacheIdle
    /\ BatchIdle
    /\ MailIdle
    /\ AppIdle

\* time passes
TickClock ==
    /\ clock < MaxClock
    /\ clock' = clock + 1
    /\ UNCHANGED <<notCache, memory, market_cache, cpc, pending, cacheCall, lastSet>>

\* set_cached(ticker, data), first half: ts, payload, the write to
\* _MEMORY_CACHE.
SetMemory(p, ticker, d) ==
    /\ cpc[p] = "idle"
    /\ pending' = [pending EXCEPT ![p] =
                      <<[ticker |-> ticker, data |-> d, ts |-> clock,
                         payload |-> Dumps(d)]>>]
    /\ memory' = [memory EXCEPT ![p][ticker] =
                     <<[data |-> d, timestamp |-> clock]>>]
    /\ cpc' = [cpc EXCEPT ![p] = "durable"]
    /\ UNCHANGED <<notCache, clock, market_cache, cacheCall, lastSet>>

\* set_cached(ticker, data), second half: INSERT OR REPLACE and its commit.
SetDurable(p) ==
    /\ cpc[p] = "durable"
    /\ LET s == pending[p][1]
       IN  /\ market_cache' = Upsert(market_cache,
                                     [ticker |-> s.ticker, payload |-> s.payload,
                                      timestamp |-> s.ts])
           /\ cacheCall' = [op |-> "set", proc |-> p, ticker |-> s.ticker,
                            ret |-> <<s.data>>, ts |-> s.ts, at |-> clock,
                            tier |-> "both"]
           /\ lastSet' = <<[proc |-> p, ticker |-> s.ticker, data |-> s.data,
                            ts |-> s.ts]>>
    /\ cpc' = [cpc EXCEPT ![p] = "idle"]
    /\ pending' = [pending EXCEPT ![p] = <<>>]
    /\ UNCHANGED <<notCache, clock, memory>>

\* get_cached(ticker): the memory entry if it is of today, else the durable
\* row if it is of today, copied into _MEMORY_CACHE, else None.
GetCached(p, ticker) ==
    /\ cpc[p] = "idle"
    /\ LET entry == memory[p][ticker]
           rows == SelectPayload(market_cache, ticker)
           row == CHOOSE r \in rows : TRUE
           got(d, ts, tier) == [op |-> "get", proc |-> p, ticker |-> ticker,
                                ret |-> d, ts |-> ts, at |-> clock, tier |-> tier]
       IN  IF entry # <<>> /\ ~is_eod_expired(entry[1].timestamp, clock)
           THEN /\ cacheCall' = got(<<entry[1].data>>, entry[1].timestamp, "memory")
                /\ memory' = memory
           ELSE IF rows = {} \/ is_eod_expired(row.timestamp, clock)
           THEN /\ cacheCall' = got(<<>>, 0, "none")
                /\ memory' = memory
           ELSE /\ cacheCall' = got(<<Loads(row.payload)>>, row.timestamp, "durable")
                /\ memory' = [memory EXCEPT ![p][ticker] =
                                 <<[data |-> Loads(row.payload),
                                    timestamp |-> row.timestamp]>>]
    /\ UNCHANGED <<notCache, clock, market_cache, cpc, pending, lastSet>>

\* A process ends and a new one starts: _MEMORY_CACHE = {}.
Restart(p) ==
    /\ cpc[p] = "idle"
    /\ \E k \in CacheTickers : memory[p][k] # <<>>
    /\ memory' = [memory EXCEPT ![p] = [k \in CacheTickers |-> <<>>]]
    /\ cacheCall' = [NoCacheCall EXCEPT !.op = "restart", !.proc = p]
    /\ UNCHANGED <<notCache, clock, market_cache, cpc, pending, lastSet>>

NextCache ==
    \/ TickClock
    \/ \E p \in CacheProcs, k \in CacheTickers, d \in CacheData : SetMemory(p, k, d)
    \/ \E p \in CacheProcs : SetDurable(p)
    \/ \E p \in CacheProcs, k \in CacheTickers : GetCached(p, k)
    \/ \E p \in CacheProcs : Restart(p)

SpecCache == InitCache /\ [][NextCache]_vars

\* Calls made one after the other: a set_cached ends before the next call
\* of any process starts.
CacheBusy == \E q \in CacheProcs : cpc[q] # "idle"

NextCacheSeq ==
    \/ TickClock
    \/ \E p \in CacheProcs, k \in CacheTickers, d \in CacheData :
          ~CacheBusy /\ SetMemory(p, k, d)
    \/ \E p \in CacheProcs : SetDurable(p)
    \/ \E p \in CacheProcs, k \in CacheTickers : ~CacheBusy /\ GetCached(p, k)
    \/ \E p \in CacheProcs : ~CacheBusy /\ Restart(p)

SpecCacheSeq == InitCache /\ [][NextCacheSeq]_vars

\* The threads of one server process share the module-level _MEMORY_CACHE:
\* the process whose map they write.
WebProc == 1

\* set_cached(ticker, data) called by thread t of WebProc, first half: ts,
\* payload, the write to the shared _MEMORY_CACHE.
SetMemoryShared(t, ticker, d) ==
    /\ cpc[t] = "idle"
    /\ pending' = [pending EXCEPT ![t] =
                      <<[ticker |-> ticker, data |-> d, ts |-> clock,
                         payload |-> Dumps(d)]>>]
    /\ memory' = [memory EXCEPT ![WebProc][ticker] =
                     <<[data |-> d, timestamp |-> clock]>>]
    /\ cpc' = [cpc EXCEPT ![t] = "durable"]
    /\ UNCHANGED <<notCache, clock, market_cache, cacheCall, lastSet>>

\* get_cached(ticker) called by a thread of WebProc that is not inside
\* set_cached.
GetCachedShared(t, ticker) ==
    /\ cpc[t] = "idle"
    /\ GetCached(WebProc, ticker)

\* Two threads of one process: the second half of set_cached is SetDurable,
\* which does not touch the map.
NextCacheThreads ==
    \/ TickClock
    \/ \E t \in CacheProcs, k \in CacheTickers, d \in CacheData :
          SetMemoryShared(t, k, d)
    \/ \E t \in CacheProcs : SetDurable(t)
    \/ \E t \in CacheProcs, k \in CacheTickers : GetCachedShared(t, k)

SpecCacheThreads == InitCache /\ [][NextCacheThreads]_vars

\* The day an instant falls on, counted from instant 0.
DayOf(t) == t \div TicksPerDay

\* C13: get_cached returns a snapshot only if the timestamp stored with it
\* falls on the same calendar day and year as the instant of the call, from
\* the memory tier and from the durable tier alike; an entry of an earlier
\* day that is still stored is treated as absent.
C13_CachedOnlySameDay ==
    /\ (cacheCall.op = "get" /\ cacheCall.ret # <<>>) =>
           /\ cacheCall.tier \in {"memory", "durable"}
           /\ DayOf(cacheCall.ts) = DayOf(cacheCall.at)
    /\ (cacheCall.op = "get" /\ cacheCall.ret = <<>>) => cacheCall.tier = "none"

\* C13 happens: a get_cached found only an entry of an earlier day, which is
\* still stored in both tiers, and returned None.
C13_Witness ==
    /\ cacheCall.op = "get" /\ cacheCall.ret = <<>>
    /\ cacheCall.at = clock
    /\ memory[cacheCall.proc][cacheCall.ticker] # <<>>
    /\ DayOf(memory[cacheCall.proc][cacheCall.ticker][1].timestamp) < DayOf(clock)
    /\ \E r \in market_cache :
           r.ticker = cacheCall.ticker /\ DayOf(r.timestamp) < DayOf(clock)

\* C14: when set_cached(key, X) has completed and no other call has started,
\* the memory map of the caller
\* and the durable table hold the same snapshot and timestamp for key, with
\* exactly one durable row for it; a get_cached on the same day, by the
\* caller or by a process whose map had no usable entry, returns X's data,
\* and a process that got it from the durable row has copied it into its
\* own map.
C14_WriteThrough ==
    /\ (cacheCall.op = "set" /\ ~CacheBusy) =>
           LET p == cacheCall.proc
               k == cacheCall.ticker
               rows == {r \in market_cache : r.ticker = k}
           IN  /\ memory[p][k] = <<[data |-> cacheCall.ret[1],
                                    timestamp |-> cacheCall.ts]>>
               /\ Cardinality(rows) = 1
               /\ \A r \in rows :
                      /\ Loads(r.payload) = cacheCall.ret[1]
                      /\ r.timestamp = cacheCall.ts
    /\ \A k \in CacheTickers :
           Cardinality({r \in market_cache : r.ticker = k}) <= 1
    /\ (/\ cacheCall.op = "get"
        /\ lastSet # <<>>
        /\ lastSet[1].ticker = cacheCall.ticker
        /\ DayOf(cacheCall.at) = DayOf(lastSet[1].ts)
        /\ cacheCall.proc = lastSet[1].proc \/ cacheCall.tier # "memory") =>
           /\ cacheCall.ret = <<lastSet[1].data>>
           /\ cacheCall.ts = lastSet[1].ts
           /\ (cacheCall.tier = "durable" /\ cpc[cacheCall.proc] = "idle") =>
                  memory[cacheCall.proc][cacheCall.ticker] =
                      <<[data |-> lastSet[1].data, timestamp |-> lastSet[1].ts]>>

\* C14 happens: a process other than the one that called set_cached, with an
\* empty map, gets the snapshot (a price, not None) from the durable row.
C14_Witness ==
    /\ cacheCall.op = "get" /\ cacheCall.tier = "durable"
    /\ lastSet # <<>>
    /\ cacheCall.proc # lastSet[1].proc
    /\ cacheCall.ret = <<[current_price |-> <<100>>]>>
    /\ lastSet[1].data = [current_price |-> <<100>>]
    /\ memory[cacheCall.proc][cacheCall.ticker] # <<>>


(***************************************************************************)
(* Ticker validation: validators.py. A string is a sequence of characters. *)
(***************************************************************************)
LowerLetters == <<"a", "b", "c", "d", "e", "f", "g", "h", "i", "j", "k", "l", "m",
                  "n", "o", "p", "q", "r", "s", "t", "u", "v", "w", "x", "y", "z">>
UpperLetters == <<"A", "B", "C", "D", "E", "F", "G", "H", "I", "J", "K", "L", "M",
                  "N", "O", "P", "Q", "R", "S", "T", "U", "V", "W", "X", "Y", "Z">>
Digits == {"0", "1", "2", "3", "4", "5", "6", "7", "8", "9"}
LetterIndex == DOMAIN LowerLetters

\* str.upper() and str.lower(), character by character
UpperChar(c) ==
    IF \E i \in LetterIndex : LowerLetters[i] = c
    THEN UpperLetters[CHOOSE i \in LetterIndex : LowerLetters[i] = c]
    ELSE c
LowerChar(c) ==
    IF \E i \in LetterIndex : UpperLetters[i] = c
    THEN LowerLetters[CHOOSE i \in LetterIndex : UpperLetters[i] = c]
    ELSE c
UpperStr(s) == [i \in 1..Len(s) |-> UpperChar(s[i])]
LowerStr(s) == [i \in 1..Len(s) |-> LowerChar(s[i])]

\* str.strip()
RECURSIVE Strip(_)
Strip(s) ==
    IF s = <<>> THEN s
    ELSE IF Head(s) = " " THEN Strip(Tail(s))
    ELSE IF s[Len(s)] = " " THEN Strip(SubSeq(s, 1, Len(s) - 1))
    ELSE s

\* re.match(r'^[A-Z0-9.-]+$', ticker)
TickerChars == {UpperLetters[i] : i \in LetterIndex} \cup Digits \cup {".", "-"}
MatchesTickerChars(s) == Len(s) >= 1 /\ \A i \in 1..Len(s) : s[i] \in TickerChars

\* re.search(pattern, s) for a pattern without operators
Contains(s, pat) ==
    \E i \in 1..(Len(s) - Len(pat) + 1) : SubSeq(s, i, i + Len(pat) - 1) = pat

\* dangerous_patterns, each alternative on its own
DangerousPatterns ==
    {<<".", ".">>,
     <<"<", "s", "c", "r", "i", "p", "t">>,
     <<"j", "a", "v", "a", "s", "c", "r", "i", "p", "t", ":">>,
     <<"s", "e", "l", "e", "c", "t">>, <<"i", "n", "s", "e", "r", "t">>,
     <<"u", "p", "d", "a", "t", "e">>, <<"d", "e", "l", "e", "t", "e">>,
     <<"d", "r", "o", "p">>,
     <<"u", "n", "i", "o", "n">>, <<"j", "o", "i", "n">>,
     <<"w", "h", "e", "r", "e">>}

\* validate_ticker(ticker): <<>> for None, else <<the sanitized ticker>>
validate_ticker(ticker) ==
    IF ticker = <<>> THEN <<>>
    ELSE LET t == UpperStr(Strip(ticker))
         IN  IF Len(t) < 1 \/ Len(t) > 10 THEN <<>>
             ELSE IF ~MatchesTickerChars(t) THEN <<>>
             ELSE IF \E pat \in DangerousPatterns : Contains(LowerStr(t), pat)
             THEN <<>>
             ELSE <<t>>


(***************************************************************************)
(* Market data provider: market_data/provider.py, market_data/service.py   *)
(***************************************************************************)
MaxDay == 1
MaxRuns == 2
LruMaxSize == 256

SnapshotKeys == SixKeys \cup {"symbol", "volume"}

\* The indicators a price history yields: the last close, the extremes of
\* the last 252 closes, the means of the last 50 and 200, the RSI, the volume.
History(price, low, high, dma_50, dma_200, rsi) ==
    [price |-> price, low |-> low, high |-> high, dma_50 |-> dma_50,
     dma_200 |-> dma_200, rsi |-> rsi, volume |-> 1000]
Histories ==
    {History(100, 100, 120, 100, 100, 41),
     History(0, 0, 120, 100, 100, 41),
     History(100, 100, 120, 0, 100, 41)}
NoHistory == History(0, 0, 0, 0, 0, 0)

\* What the upstream API does with one request: the kind of answer, the
\* length of the list, the number of rows that survive dropna, the history.
Answer(kind, rows, n, h) == [kind |-> kind, rows |-> rows, n |-> n, h |-> h]
Upstreams ==
    {Answer(k, 0, 0, NoHistory) :
        k \in {"timeout", "http_error", "bad_json", "not_list"}}
    \cup {Answer("list", 19, 19, NoHistory), Answer("list", 20, 19, NoHistory)}
    \cup {Answer("list", n, n, History(100, 100, 120, 100, 100, 41)) :
              n \in {20, 49, 50, 199}}
    \cup {Answer("list", 200, 200, h) : h \in Histories}

\* The snapshot of the two except branches: every indicator None.
AbsentSnapshot(symbol) ==
    [k \in SnapshotKeys |-> IF k = "symbol" THEN <<symbol>> ELSE <<>>]

\* A rolling mean that asks for one row too few.
HasRowsLoose(n, window) == n >= window - 1

\* len(df) >= 50, len(df) >= 200: enough clean rows for a rolling mean.
HasRows(n, window) == n >= window

\* calculate_rsi(close) over n closes: None below period + 1 = 15 closes,
\* else the rounded float of the last RSI.
calculate_rsi(n, h) == IF n < 15 THEN <<>> ELSE <<h.rsi>>

\* The snapshot dict built from n clean rows. safe_float of a float is a
\* float, so a field that is computed is not None.
MakeSnapshot(symbol, n, h) ==
    [k \in SnapshotKeys |->
        CASE k = "symbol" -> <<symbol>>
          [] k = "current_price" -> <<h.price>>
          [] k = "dma_50" -> IF HasRows(n, 50) THEN <<h.dma_50>> ELSE <<>>
          [] k = "dma_200" -> IF HasRows(n, 200) THEN <<h.dma_200>> ELSE <<>>
          [] k = "rsi_14" -> calculate_rsi(n, h)
          [] k = "volume" -> <<h.volume>>
          [] k = "52w_high" -> <<h.high>>
          [] OTHER -> <<h.low>>]

\* The try block of fetch_snapshot: the exception it ends with, or "none"
\* and the snapshot.
FetchBody(symbol, up) ==
    CASE up.kind = "timeout" -> [exc |-> "Timeout", value |-> <<>>]
      [] up.kind = "http_error" -> [exc |-> "HTTPError", value |-> <<>>]
      [] up.kind = "bad_json" -> [exc |-> "JSONDecodeError", value |-> <<>>]
      [] up.kind = "not_list" \/ up.rows < 20 -> [exc |-> "ValueError", value |-> <<>>]
      [] OTHER ->
           IF up.n < 20 THEN [exc |-> "ValueError", value |-> <<>>]
           ELSE [exc |-> "none", value |-> MakeSnapshot(symbol, up.n, up.h)]

\* A handler for timeouts only.
IsTimeout(exc) == exc = "Timeout"

\* except Exception: the classes the body can raise all derive from it.
IsException(exc) ==
    exc \in {"Timeout", "HTTPError", "JSONDecodeError", "ValueError"}

\* fetch_snapshot(symbol) on a cache miss, the upstream answering up.
fetch_snapshot(symbol, up) ==
    LET body == FetchBody(symbol, up)
    IN  IF body.exc = "none" THEN [raised |-> FALSE, value |-> body.value]
        ELSE IF body.exc = "Timeout"
        THEN [raised |-> FALSE, value |-> AbsentSnapshot(symbol)]
        ELSE IF IsException(body.exc)
        THEN [raised |-> FALSE, value |-> AbsentSnapshot(symbol)]
        ELSE [raised |-> TRUE, value |-> <<>>]

\* A cache without a bound: nothing is ever dropped.
LruPutUnbounded(cache, e) == Append(cache, e)

\* functools.lru_cache: the position of a symbol, a hit, an insertion
LruFind(cache, symbol) == {i \in 1..Len(cache) : cache[i].symbol = symbol}
LruHit(cache, i) ==
    SubSeq(cache, 1, i - 1) \o SubSeq(cache, i + 1, Len(cache)) \o <<cache[i]>>
LruPut(cache, e) ==
    IF Len(cache) >= LruMaxSize THEN Append(Tail(cache), e) ELSE Append(cache, e)

\* if data.get("current_price"): None and 0.0 are false
Truthy(v) == v # <<>> /\ v[1] # 0


(***************************************************************************)
(* The batch: analyze_user_tickers (app.py), save_recommendation           *)
(* (database.py)                                                           *)
(***************************************************************************)
BatchUserId == 1
Aapl == <<"a", "a", "p", "l">>
AAPL == <<"A", "A", "P", "L">>
PaddedMsft == <<" ", "M", "S", "F", "T", " ">>
DotDot == <<"A", ".", ".", "B">>
Drop == <<"d", "r", "o", "p">>
Watchlists == {<<Aapl, DotDot, PaddedMsft>>, <<Drop, AAPL>>, <<>>}
SaveOutcomes == {"ok", "insert_fails", "connect_fails"}

\* validate_ticker, tabulated once over the entries of the watchlists
WatchlistEntries == UNION {{w[i] : i \in DOMAIN w} : w \in Watchlists}
clean_ticker == [t \in WatchlistEntries |-> validate_ticker(t)]

\* A row that reports the failure as a HOLD.
HoldRow(ticker, reason) ==
    [ticker |-> ticker, price |-> <<>>, action |-> "HOLD", confidence |-> 0,
     reasons |-> <<reason>>]

\* The row of an invalid symbol and of the except branch.
ErrorRow(ticker, reason) ==
    [ticker |-> ticker, price |-> <<>>, action |-> "ERROR", confidence |-> 0,
     reasons |-> <<reason>>]

\* The row of an analysed ticker.
ResultRow(ticker, d, r) ==
    [ticker |-> ticker, price |-> Get(d, "current_price"), action |-> r.action,
     confidence |-> r.confidence, reasons |-> r.reasons]

\* What was done for one watchlist entry.
Done(valid, requested, fetched_day, snapshot, engine_raised, save, rec_id) ==
    [valid |-> valid, requested |-> requested, fetched_day |-> fetched_day,
     served_day |-> today, snapshot |-> snapshot,
     engine_raised |-> engine_raised, save |-> save, rec_id |-> rec_id]

InitBatch ==
    /\ AuthIdle
    /\ AdvIdle
    /\ DbIdle
    /\ CacheIdle
    /\ BatchIdle
    /\ MailIdle
    /\ AppIdle

\* midnight
NextDay ==
    /\ today < MaxDay
    /\ today' = today + 1
    /\ UNCHANGED <<notBatch, lru, lastFetch, bpc, watch, bi, results, trace,
                   recommendations, nextRecId, runs>>

\* batch_json: analyze_user_tickers(user) is called
StartBatch(tickers) ==
    /\ bpc = "idle"
    /\ runs < MaxRuns
    /\ runs' = runs + 1
    /\ watch' = [id |-> BatchUserId, tickers |-> tickers]
    /\ bi' = 1
    /\ results' = <<>>
    /\ trace' = <<>>
    /\ bpc' = "loop"
    /\ UNCHANGED <<notBatch, today, lru, lastFetch, recommendations, nextRecId>>

\* One turn of the loop of analyze_user_tickers: validate_ticker,
\* get_trade_advisor_data (fetch_snapshot behind its lru_cache),
\* get_trade_recommendation, save_recommendation, the row.
AnalyzeOne(up, save) ==
    /\ bpc = "loop"
    /\ bi <= Len(watch.tickers)
    /\ \E clean \in {clean_ticker[watch.tickers[bi]]} :
         IF clean = <<>>
         THEN /\ results' = Append(results,
                                   ErrorRow(UpperStr(watch.tickers[bi]),
                                            "Invalid ticker symbol"))
              /\ trace' = Append(trace,
                                 Done(FALSE, FALSE, today, <<>>, FALSE, "none", 0))
              /\ UNCHANGED <<lru, lastFetch, recommendations, nextRecId>>
         ELSE \E at \in {LruFind(lru, clean[1])} :
              \E f \in {IF at # {}
                        THEN [raised |-> FALSE,
                              value |-> lru[CHOOSE j \in at : TRUE].value]
                        ELSE fetch_snapshot(clean[1], up)} :
              \E r \in {IF f.raised THEN RaisedResult
                        ELSE get_trade_recommendation(f.value)} :
              LET sym == clean[1]
                  hit == at # {}
                  i == CHOOSE j \in at : TRUE
                  day == IF hit THEN lru[i].day ELSE today
                  tried == ~r.raised /\ Truthy(Get(f.value, "current_price"))
                  wrote == tried /\ save = "ok"
                  failed == r.raised \/ (tried /\ save = "connect_fails")
              IN  /\ lru' = IF hit THEN LruHit(lru, i)
                            ELSE IF f.raised THEN lru
                            ELSE LruPut(lru, [symbol |-> sym, value |-> f.value,
                                              day |-> today])
                  /\ lastFetch' = IF hit THEN lastFetch
                                  ELSE [symbol |-> sym, kind |-> up.kind,
                                        rows |-> up.rows, n |-> up.n,
                                        raised |-> f.raised, value |-> f.value]
                  /\ recommendations' =
                         IF wrote
                         THEN recommendations \cup
                                  {[id |-> nextRecId, user_id |-> watch.id,
                                    ticker |-> sym, action |-> r.action,
                                    confidence |-> r.confidence,
                                    price |-> Get(f.value, "current_price")[1]]}
                         ELSE recommendations
                  /\ nextRecId' = IF wrote THEN nextRecId + 1 ELSE nextRecId
                  /\ results' = Append(results,
                                       IF failed
                                       THEN ErrorRow(sym, "Failed to fetch data")
                                       ELSE ResultRow(sym, f.value, r))
                  /\ trace' = Append(trace,
                                     Done(TRUE, ~hit, day, f.value,
                                          f.raised \/ r.raised,
                                          IF tried THEN save ELSE "none",
                                          IF wrote THEN nextRecId ELSE 0))
    /\ bi' = bi + 1
    /\ UNCHANGED <<notBatch, today, bpc, watch, runs>>

\* return results
FinishBatch ==
    /\ bpc = "loop"
    /\ bi > Len(watch.tickers)
    /\ bpc' = "idle"
    /\ UNCHANGED <<notBatch, today, lru, lastFetch, watch, bi, results, trace,
                   recommendations, nextRecId, runs>>

\* The upstream API is asked on a miss of the lru_cache only.
Miss ==
    /\ bpc = "loop"
    /\ bi <= Len(watch.tickers)
    /\ \E clean \in {clean_ticker[watch.tickers[bi]]} :
           clean # <<>> /\ LruFind(lru, clean[1]) = {}
NotAsked == Answer("none", 0, 0, NoHistory)
Asked == IF Miss THEN Upstreams ELSE {NotAsked}

NextBatch ==
    \/ NextDay
    \/ \E w \in Watchlists : StartBatch(w)
    \/ \E up \in Asked, save \in SaveOutcomes : AnalyzeOne(up, save)
    \/ FinishBatch

SpecBatch == InitBatch /\ [][NextBatch]_vars


\* C15: fetch_snapshot never raises: on a timeout, an HTTP error, an answer
\* that is not a list of at least 20 rows, fewer than 20 clean rows, or any
\* other exception, it returns a snapshot of that symbol whose seven
\* indicator fields are all absent, and get_trade_recommendation on that
\* snapshot gives HOLD with confidence 0.
C15_FetchNeverRaises ==
    lastFetch.kind # "none" =>
        /\ ~lastFetch.raised
        /\ (lastFetch.kind # "list" \/ lastFetch.rows < 20 \/ lastFetch.n < 20) =>
               /\ lastFetch.value["symbol"] = <<lastFetch.symbol>>
               /\ \A k \in SnapshotKeys \ {"symbol"} : lastFetch.value[k] = <<>>
               /\ \E r \in {get_trade_recommendation(lastFetch.value)} :
                      ~r.raised /\ r.action = "HOLD" /\ r.confidence = 0

\* C15 happens: the upstream answered a list of 20 rows of which 19 are
\* clean, and the batch shows a HOLD with confidence 0 for the symbol.
C15_Witness ==
    /\ lastFetch.kind = "list" /\ lastFetch.rows = 20 /\ lastFetch.n = 19
    /\ \E i \in 1..Len(results) :
           /\ results[i].ticker = lastFetch.symbol
           /\ results[i].action = "HOLD" /\ results[i].confidence = 0
           /\ trace[i].requested

\* C16: every snapshot handed to the engine through get_market_snapshot was
\* fetched from the upstream API on the day it is served.
C16_ServedSnapshotsFetchedToday ==
    \A i \in 1..Len(trace) :
        trace[i].valid => trace[i].fetched_day = trace[i].served_day

\* C19: analyze_user_tickers returns one row per watchlist entry, in
\* watchlist order; an entry that fails validate_ticker gives an ERROR row
\* with confidence 0, no provider call and no history write; an exception
\* while one ticker is analysed gives an ERROR row with confidence 0 for that
\* ticker only; every other entry gets the engine's result.
C19_OneRowPerEntry ==
    /\ Len(results) = Len(trace)
    /\ Len(results) = bi - 1
    /\ Len(results) <= Len(watch.tickers)
    /\ bpc = "idle" => Len(results) = Len(watch.tickers)
    /\ \A i \in 1..Len(results) :
           \E v \in {clean_ticker[watch.tickers[i]]} :
               IF v = <<>>
               THEN /\ results[i].ticker = UpperStr(watch.tickers[i])
                    /\ results[i].action = "ERROR" /\ results[i].confidence = 0
                    /\ ~trace[i].requested
                    /\ trace[i].save = "none" /\ trace[i].rec_id = 0
               ELSE /\ results[i].ticker = v[1]
                    /\ IF trace[i].engine_raised \/ trace[i].save = "connect_fails"
                       THEN results[i].action = "ERROR" /\ results[i].confidence = 0
                       ELSE \E r \in {get_trade_recommendation(trace[i].snapshot)} :
                                /\ results[i].action = r.action
                                /\ results[i].action \in {"BUY", "SELL", "HOLD"}
                                /\ results[i].confidence = r.confidence

\* C19 happens: a run over three entries has ended; the engine raised on the
\* first, the second is not a valid symbol, the third was analysed.
C19_Witness ==
    /\ bpc = "idle" /\ Len(results) = 3
    /\ trace[1].valid /\ trace[1].engine_raised /\ results[1].action = "ERROR"
    /\ ~trace[2].valid /\ results[2].action = "ERROR"
    /\ trace[3].valid /\ results[3].action = "HOLD" /\ results[3].price # <<>>

\* C20: each run appends exactly one record (the user's id, the ticker, the
\* action, the confidence, the price) for every ticker whose snapshot has a
\* non-null current_price, whatever the value, and none for an absent price;
\* a failed history write does not keep the row from being returned.
C20_HistoryComplete ==
    \A i \in 1..Len(trace) :
        (trace[i].valid /\ ~trace[i].engine_raised) =>
            LET price == Get(trace[i].snapshot, "current_price")
                failed == trace[i].save \in {"insert_fails", "connect_fails"}
            IN  /\ (price # <<>> /\ ~failed) =>
                       \E r \in recommendations :
                           /\ r.id = trace[i].rec_id
                           /\ r.user_id = watch.id
                           /\ r.ticker = results[i].ticker
                           /\ r.action = results[i].action
                           /\ r.confidence = results[i].confidence
                           /\ r.price = price[1]
                /\ price = <<>> => trace[i].rec_id = 0
                /\ failed => /\ trace[i].rec_id = 0
                             /\ results[i].action # "ERROR"
                             /\ results[i].price = price


(***************************************************************************)
(* The lru_cache of fetch_snapshot, called symbol by symbol                *)
(* (market_data/provider.py). Symbols are numbered: ProbeSymbol is asked   *)
(* for again and again, every other symbol once.                           *)
(***************************************************************************)
MaxFresh == 257
ProbeSymbol == 0

\* What the upstream answers for the probe, and for every other symbol.
ProbeAnswers ==
    {Answer("timeout", 0, 0, NoHistory),
     Answer("list", 200, 200, History(100, 100, 120, 100, 100, 41))}
FillerAnswer == Answer("list", 20, 19, NoHistory)

\* The symbols asked for so far, without the one asked for now, in the order
\* of their last call.
AskedWithout(symbol) == SelectSeq(asked, LAMBDA a : a.symbol # symbol)

\* symbol is among the LruMaxSize distinct symbols asked for most recently.
RecentlyAsked(symbol) ==
    \E i \in 1..Len(asked) :
        asked[i].symbol = symbol /\ i > Len(asked) - LruMaxSize

\* The result of the last call for symbol, if there was one.
LastResult(symbol) ==
    IF \E i \in 1..Len(asked) : asked[i].symbol = symbol
    THEN <<asked[CHOOSE i \in 1..Len(asked) : asked[i].symbol = symbol].value>>
    ELSE <<>>

InitLru ==
    /\ AuthIdle
    /\ AdvIdle
    /\ DbIdle
    /\ CacheIdle
    /\ BatchIdle
    /\ MailIdle
    /\ AppIdle

\* fetch_snapshot(symbol) behind @lru_cache(maxsize=256): a hit returns the
\* stored dict and makes the entry the most recent; a miss runs the body,
\* stores what it returned and drops the least recent entry of a full cache.
CachedFetch(symbol, up) ==
    /\ \E at \in {LruFind(lru, symbol)} :
       \E f \in {IF at # {}
                 THEN [raised |-> FALSE, value |-> lru[CHOOSE j \in at : TRUE].value]
                 ELSE fetch_snapshot(symbol, up)} :
           /\ lru' = IF at # {} THEN LruHit(lru, CHOOSE j \in at : TRUE)
                     ELSE IF f.raised THEN lru
                     ELSE LruPut(lru, [symbol |-> symbol, value |-> f.value,
                                       day |-> today])
           /\ lastFetch' = IF at # {} THEN lastFetch
                           ELSE [symbol |-> symbol, kind |-> up.kind,
                                 rows |-> up.rows, n |-> up.n,
                                 raised |-> f.raised, value |-> f.value]
           /\ lruCall' = [symbol |-> symbol, requested |-> at = {},
                          value |-> f.value, expected |-> LastResult(symbol),
                          recent |-> RecentlyAsked(symbol)]
           /\ asked' = Append(AskedWithout(symbol),
                              [symbol |-> symbol, value |-> f.value])
    /\ UNCHANGED <<notLru, today, bpc, watch, bi, results, trace,
                   recommendations, nextRecId, runs>>

\* The probe is asked for.
FetchProbe(up) ==
    /\ CachedFetch(ProbeSymbol, up)
    /\ UNCHANGED fresh

\* A symbol never asked for before is asked for.
FetchFresh ==
    /\ fresh <= MaxFresh
    /\ CachedFetch(fresh, FillerAnswer)
    /\ fresh' = fresh + 1

NextLru ==
    \/ \E up \in ProbeAnswers : FetchProbe(up)
    \/ FetchFresh

SpecLru == InitLru /\ [][NextLru]_vars

\* C26: once fetch_snapshot(symbol) has returned a result, every later call
\* with the same symbol returns that result and asks the upstream API
\* nothing, as long as the symbol is among the 256 distinct symbols asked
\* for most recently; a symbol that is not (never asked for, or evicted) is
\* fetched from the upstream API.
C26_MemoizedWhileRecent ==
    lruCall.symbol # NoLruCall.symbol =>
        IF lruCall.recent
        THEN ~lruCall.requested /\ lruCall.expected = <<lruCall.value>>
        ELSE lruCall.requested

\* C26 happens: the probe was asked for, 256 other symbols pushed it out,
\* and the next call for it asked the upstream API again and got another
\* result than before.
C26_Witness ==
    /\ lruCall.symbol = ProbeSymbol
    /\ lruCall.requested
    /\ lruCall.expected # <<>>
    /\ lruCall.expected # <<lruCall.value>>
    /\ Len(lru) = LruMaxSize

\* A hit on a full cache: the probe is the oldest entry but one of the 256
\* most recently asked, and is served without a request.
C26_HitWitness ==
    /\ lruCall.symbol = ProbeSymbol
    /\ ~lruCall.requested
    /\ Len(lru) = LruMaxSize
    /\ Len(asked) > LruMaxSize


(***************************************************************************)
(* Startup: the module-level code of app.py                                *)
(***************************************************************************)
MaxHandled == 2
ExitFailure == 1

\* REQUIRED_ENV_VARS
REQUIRED_ENV_VARS == <<"FLASK_SECRET", "EMAIL_HOST", "EMAIL_PORT", "EMAIL_USER",
                       "EMAIL_PASSWORD">>
required_fields == <<"current_price", "rsi_14", "dma_50", "dma_200", "volume">>

\* The environments a process can be started in: each variable unset (or
\* empty) or set; FLASK_SECRET can also be the development secret.
Environments ==
    {e \in [EnvNames -> {"", "set", "dev-secret"}] :
        \A k \in EnvNames \ {"FLASK_SECRET"} : e[k] # "dev-secret"}

\* [k for k in REQUIRED_ENV_VARS if not os.environ.get(k)]
missing(e) == SelectSeq(REQUIRED_ENV_VARS, LAMBDA k : e[k] = "")

\* A sanity check that finds every field.
NoMissingFields(test) == <<>>

\* [f for f in required_fields if test.get(f) is None]
missing_fields(test) == SelectSeq(required_fields, LAMBDA f : Get(test, f) = <<>>)

Step(name, ok) == [step |-> name, ok |-> ok]

\* sys.exit(1), and an exception nobody catches: the interpreter ends with
\* status 1 and nothing below runs.
Exit(name) ==
    /\ spc' = "exited"
    /\ exitCode' = <<ExitFailure>>
    /\ steps' = Append(steps, Step(name, FALSE))

Proceed(name, to) ==
    /\ spc' = to
    /\ exitCode' = exitCode
    /\ steps' = Append(steps, Step(name, TRUE))

InitStartup ==
    /\ AuthIdle
    /\ AdvIdle
    /\ DbIdle
    /\ CacheIdle
    /\ BatchIdle
    /\ MailIdle
    /\ LruIdle
    /\ WebIdle
    /\ env \in Environments
    /\ spc = "off"
    /\ exitCode = <<>>
    /\ steps = <<>>
    /\ handled = 0

\* The check of the required environment variables.
CheckEnv ==
    /\ spc = "off"
    /\ IF missing(env) # <<>> THEN Exit("env") ELSE Proceed("env", "market")
    /\ UNCHANGED <<notStart, env, handled>>

\* The market data sanity check: the import of market_data.provider raises
\* without EODHD_API_KEY; fetch_snapshot("AAPL") runs its body (the cache is
\* empty) and its result stays in the lru_cache; a missing field raises
\* ValueError; every exception ends in sys.exit(1).
CheckMarket(up) ==
    /\ spc = "market"
    /\ IF env["EODHD_API_KEY"] = ""
       THEN /\ Exit("market")
            /\ UNCHANGED <<lru, lastFetch>>
       ELSE \E f \in {fetch_snapshot(AAPL, up)} :
                /\ lru' = IF f.raised THEN lru
                          ELSE LruPut(lru, [symbol |-> AAPL, value |-> f.value,
                                            day |-> today])
                /\ lastFetch' = [symbol |-> AAPL, kind |-> up.kind,
                                 rows |-> up.rows, n |-> up.n,
                                 raised |-> f.raised, value |-> f.value]
                /\ IF f.raised \/ missing_fields(f.value) # <<>>
                   THEN Exit("market")
                   ELSE Proceed("market", "app")
    /\ UNCHANGED <<authVars, advVars, dbVars, cacheVars, mailVars, lruVars, webVars,
                   today, bpc, watch, bi, results, trace, recommendations,
                   nextRecId, runs, env, handled>>

\* app = Flask(__name__) and its secret key: the development secret is
\* refused when RENDER is set (ValueError, not caught).
ConfigureApp ==
    /\ spc = "app"
    /\ IF env["FLASK_SECRET"] = "dev-secret" /\ env["RENDER"] # ""
       THEN Exit("app")
       ELSE Proceed("app", "init_db")
    /\ UNCHANGED <<notStart, env, handled>>

\* init_db(): CREATE TABLE IF NOT EXISTS ..., commit; an sqlite3 error is not
\* caught.
RunInitDb(ok) ==
    /\ spc = "init_db"
    /\ IF ok THEN Proceed("init_db", "serving") ELSE Exit("init_db")
    /\ UNCHANGED <<notStart, env, handled>>

\* The server, once the module has run to its end, handles a request.
HandleRequest ==
    /\ spc = "serving"
    /\ handled < MaxHandled
    /\ handled' = handled + 1
    /\ UNCHANGED <<notStart, env, spc, exitCode, steps>>

NextStartup ==
    \/ CheckEnv
    \/ \E up \in Upstreams : CheckMarket(up)
    \/ ConfigureApp
    \/ \E ok \in BOOLEAN : RunInitDb(ok)
    \/ HandleRequest

SpecStartup == InitStartup /\ [][NextStartup]_vars

StartupOrder == <<"env", "market", "app", "init_db">>

\* C21: the server handles a request only after every startup step has
\* succeeded, in order: the five required environment variables are set,
\* then the fetch of AAPL gave current_price, rsi_14, dma_50, dma_200 and
\* volume, then the schema was initialised; a step that fails ends the
\* process with a non-zero status and no later step runs.
C21_ServeOnlyAfterStartup ==
    /\ Len(steps) <= Len(StartupOrder)
    /\ \A i \in 1..Len(steps) :
           /\ steps[i].step = StartupOrder[i]
           /\ ~steps[i].ok => (i = Len(steps) /\ spc = "exited")
    /\ (handled > 0 \/ spc = "serving") =>
           /\ spc = "serving"
           /\ exitCode = <<>>
           /\ Len(steps) = Len(StartupOrder)
           /\ \A i \in 1..Len(steps) : steps[i].ok
           /\ \A i \in 1..Len(REQUIRED_ENV_VARS) : env[REQUIRED_ENV_VARS[i]] # ""
           /\ lastFetch.symbol = AAPL /\ lastFetch.kind = "list"
           /\ \A f \in {"current_price", "rsi_14", "dma_50", "dma_200", "volume"} :
                  lastFetch.value[f] # <<>>
    /\ (spc = "exited") <=> (steps # <<>> /\ ~steps[Len(steps)].ok)
    /\ (spc = "exited") <=> (exitCode # <<>>)
    /\ exitCode # <<>> => (exitCode[1] # 0 /\ handled = 0)

\* C21 happens: every step succeeded and a request has been handled.
C21_Witness ==
    /\ spc = "serving" /\ handled > 0
    /\ Len(steps) = Len(StartupOrder)
    /\ lastFetch.n = 200

\* A start that ended at the market data check: 199 clean rows, no dma_200.
C21_ExitWitness ==
    /\ spc = "exited" /\ exitCode = <<ExitFailure>>
    /\ Len(steps) = 2 /\ steps[1].ok
    /\ lastFetch.n = 199


(***************************************************************************)
(* Routes of app.py: /login, /magic-login, /logout, /batch-json,           *)
(* /email-results. session[p] is the session cookie client p holds; a      *)
(* request carries the cookie of the moment it is sent.                    *)
(***************************************************************************)
MaxRequests == 4
MaxWebTime == 1

\* validate_email (validators.py): the pattern
\* ^[a-zA-Z0-9._%+-]+@[a-zA-Z0-9.-]+\.[a-zA-Z]{2,}$ and the length checks.
AsciiLetters ==
    {LowerLetters[i] : i \in LetterIndex} \cup {UpperLetters[i] : i \in LetterIndex}
EmailLocalChars == AsciiLetters \cup Digits \cup {".", "_", "%", "+", "-"}
EmailDomainChars == AsciiLetters \cup Digits \cup {".", "-"}
MatchesEmailPattern(e) ==
    \E i \in 2..Len(e), j \in 4..Len(e) :
        /\ i + 1 < j
        /\ e[i] = "@"
        /\ e[j] = "."
        /\ \A k \in 1..(i - 1) : e[k] \in EmailLocalChars
        /\ \A k \in (i + 1)..(j - 1) : e[k] \in EmailDomainChars
        /\ Len(e) - j >= 2
        /\ \A k \in (j + 1)..Len(e) : e[k] \in AsciiLetters

\* A login that takes any text with an @ in it.
AnyEmail(e) == \E i \in 1..Len(e) : e[i] = "@"

validate_email(e) ==
    IF e = <<>> THEN FALSE
    ELSE IF Len(e) > 254 \/ Len(e) < 5 THEN FALSE
    ELSE MatchesEmailPattern(e)

\* What is typed into the login form: the characters, and the text that
\* request.form.get("email", "").strip() makes of them.
Form(chars, text) == [chars |-> chars, text |-> text]
LoginForms ==
    {Form(<<" ", "a", "@", "x", ".", "i", "o", " ">>, "a@x.io"),
     Form(<<"b", "@", "x", ".", "i", "o">>, "b@x.io"),
     Form(<<"a", "@", "x", ".", "i">>, "a@x.i")}

\* The clients whose requests are followed.
WebClients == {1}

\* The users the migration script creates.
WebUserEmails == {"a@x.io"}
WebTickerLists == {<<"AAPL">>}

\* The characters of a stored ticker.
TickerText(t) == IF t = "AAPL" THEN AAPL ELSE <<>>

RespRedirectLogin == [status |-> 302, body |-> "/login"]
RespInvalidEmail == [status |-> 400, body |-> "Invalid email format"]
RespEmailNotFound == [status |-> 404, body |-> "Email not found"]
RespLinkError == [status |-> 500, body |-> "Error generating login link"]
RespMailError == [status |-> 500, body |-> "Error sending email. Please try again."]
RespLinkSent == [status |-> 200, body |-> "Magic link sent!"]
RespDashboard == [status |-> 200, body |-> "dashboard"]
RespEmailSent == [status |-> 200, body |-> "Email sent successfully!"]

\* The response to a request, as the history keeps it.
Answered(route, p, r, hadSession, email, token) ==
    [seq |-> webCall.seq + 1, route |-> route, client |-> p,
     status |-> r.status, body |-> r.body, hadSession |-> hadSession,
     email |-> email, token |-> token]

\* An email handed to the mail server; a magic link carries a token.
Mail(kind, to, token) == [kind |-> kind, to |-> to, token |-> token, at |-> now]

\* A logout that leaves the session as it is.
session_keep(sess, p) == sess

\* session.clear()
session_clear(sess, p) == [sess EXCEPT ![p] = None]

InitWeb ==
    /\ AuthIdle
    /\ AdvIdle
    /\ DbIdle
    /\ CacheIdle
    /\ BatchIdle
    /\ MailIdle
    /\ AppIdle

\* The migration script has created a user.
WebCreateUser(email, tickers) == CreateUser("Al", email, tickers)

\* A minute passes.
WebTick ==
    /\ now < MaxWebTime
    /\ Tick

\* POST /login: validate_email, get_user_by_email, a token of
\* secrets.token_urlsafe, save_magic_link (False when the INSERT raises: the
\* token exists, or another connection holds the write lock), send_email
\* (mailOk: it returned; else it raised).
Login(p, form, token, mailOk) ==
    /\ webCall.seq < MaxRequests
    /\ LET email == form.text
           saved == writer = 0 /\ ~\E r \in magic_links : r.token = token
           rows == magic_links \cup {Row(token, email, now + 15, FALSE)}
           r == IF ~validate_email(Strip(form.chars)) THEN RespInvalidEmail
                ELSE IF get_user_by_email(email) = {<<>>} THEN RespEmailNotFound
                ELSE IF ~saved THEN RespLinkError
                ELSE IF ~mailOk THEN RespMailError
                ELSE RespLinkSent
           called == r \in {RespLinkError, RespMailError, RespLinkSent}
           stored == r \in {RespMailError, RespLinkSent}
       IN  /\ magic_links' = IF stored THEN rows ELSE magic_links
           /\ saveCount' = IF stored THEN [saveCount EXCEPT ![token] = @ + 1]
                           ELSE saveCount
           /\ savedEmail' = IF stored THEN [savedEmail EXCEPT ![token] = email]
                            ELSE savedEmail
           /\ saveResult' = IF called THEN stored ELSE saveResult
           /\ created' = IF stored THEN [created EXCEPT ![token] = <<now>>]
                         ELSE created
           /\ sent' = IF r = RespLinkSent
                      THEN sent \cup {Mail("magic-link", email, token)}
                      ELSE sent
           /\ webCall' = Answered("login", p, r, session[p] # None, email,
                                  IF called THEN token ELSE "")
    /\ UNCHANGED <<notWeb, dbVars, batchVars, now, writer, pc, tok, link, result,
                   resp, session, cls, successes, wpc, owner>>

\* GET /logout: session.clear(), redirect to /login.
Logout(p) ==
    /\ webCall.seq < MaxRequests
    /\ session' = session_clear(session, p)
    /\ webCall' = Answered("logout", p, RespRedirectLogin, session[p] # None,
                           "", "")
    /\ UNCHANGED <<notWeb, dbVars, batchVars, now, magic_links, writer, pc, tok,
                   link, result, resp, cls, saveCount, savedEmail, successes,
                   saveResult, wpc, sent, created, owner>>

\* GET /batch-json and POST /email-results up to analyze_user_tickers:
\* without user_email in the session, a redirect to /login; with it,
\* get_user_by_email; without a user, a redirect (and /batch-json clears the
\* session); else the analysis of the user's watchlist starts.
Protected(p, route) ==
    /\ wpc[p] = "idle"
    /\ webCall.seq < MaxRequests
    /\ IF session[p] = None
       THEN /\ webCall' = Answered(route, p, RespRedirectLogin, FALSE, "", "")
            /\ UNCHANGED <<session, wpc, owner, batchVars>>
       ELSE \E u \in get_user_by_email(session[p]) :
            IF u = <<>>
            THEN /\ webCall' = Answered(route, p, RespRedirectLogin, TRUE,
                                        session[p], "")
                 /\ session' = IF route = "batch-json"
                               THEN session_clear(session, p)
                               ELSE session
                 /\ UNCHANGED <<wpc, owner, batchVars>>
            ELSE /\ bpc = "idle"
                 /\ runs < MaxRuns
                 /\ runs' = runs + 1
                 /\ watch' = [id |-> u[1].id,
                              tickers |-> [i \in 1..Len(u[1].tickers) |->
                                              TickerText(u[1].tickers[i])],
                              email |-> u[1].email]
                 /\ bi' = 1
                 /\ results' = <<>>
                 /\ trace' = <<>>
                 /\ bpc' = "loop"
                 /\ wpc' = [wpc EXCEPT ![p] = route]
                 /\ owner' = p
                 /\ UNCHANGED <<session, webCall, today, lru, lastFetch,
                                recommendations, nextRecId>>
    /\ UNCHANGED <<notWeb, dbVars, now, magic_links, writer, pc, tok, link, result,
                   resp, cls, saveCount, savedEmail, successes, saveResult, sent,
                   created>>

BatchJson(p) == Protected(p, "batch-json")
EmailResults(p) == Protected(p, "email-results")

\* The end of the two protected routes once analyze_user_tickers has
\* returned: /batch-json renders the rows; /email-results calls send_email
\* with the user's address and answers 200, or 500 when it raised.
Respond(p, mailOk) ==
    /\ owner = p
    /\ wpc[p] # "idle"
    /\ bpc = "idle"
    /\ LET r == IF wpc[p] = "batch-json" THEN RespDashboard
                ELSE IF mailOk THEN RespEmailSent
                ELSE RespMailError
       IN  /\ webCall' = Answered(wpc[p], p, r, TRUE, watch.email, "")
           /\ sent' = IF r = RespEmailSent
                      THEN sent \cup {Mail("results", watch.email, "")}
                      ELSE sent
    /\ wpc' = [wpc EXCEPT ![p] = "idle"]
    /\ owner' = 0
    /\ UNCHANGED <<notWeb, authVars, dbVars, batchVars, created>>

\* The upstream answers and the outcomes of save_recommendation while a
\* request is analysed.
WebUpstreams ==
    {Answer("timeout", 0, 0, NoHistory),
     Answer("list", 200, 200, History(100, 100, 120, 100, 100, 41))}
WebAsked == IF Miss THEN WebUpstreams ELSE {NotAsked}

NextWeb ==
    \/ \E e \in WebUserEmails, ts \in WebTickerLists : WebCreateUser(e, ts)
    \/ WebTick
    \/ \E p \in WebClients, f \in LoginForms, t \in Tokens, ok \in BOOLEAN :
          Login(p, f, t, ok)
    \/ \E p \in WebClients, t \in Tokens : MagicLogin(p, t)
    \/ \E p \in WebClients : CheckExpiry(p)
    \/ \E p \in WebClients : Update(p)
    \/ \E p \in WebClients : Commit(p)
    \/ \E p \in WebClients : Logout(p)
    \/ \E p \in WebClients : BatchJson(p)
    \/ \E p \in WebClients : EmailResults(p)
    \/ \E up \in WebAsked : AnalyzeOne(up, "ok")
    \/ FinishBatch
    \/ \E p \in WebClients, ok \in BOOLEAN : Respond(p, ok)

SpecWeb == InitWeb /\ [][NextWeb]_vars


(***************************************************************************)
(* Mail: email_utils.py                                                    *)
(***************************************************************************)
MaxRetry == 3
DefaultRetryCount == 3

AddrA == <<"a", "@", "x">>
AddrB == <<"b", "@", "x">>
NoAt == <<"n", "o">>
RecipientLists == {<<AddrA, NoAt, AddrB>>, <<AddrB, AddrA>>, <<>>}
Recipients == {AddrA, AddrB, NoAt, <<>>}
Outcomes == {"ok", "auth", "smtp", "other"}

\* '@' in to_email
HasAt(s) == \E i \in 1..Len(s) : s[i] = "@"

\* A loop that never takes an attempt for its last.
NeverLast(attempt, retry_count) == FALSE

\* attempt == retry_count - 1
IsLastAttempt(attempt, retry_count) == attempt = retry_count - 1

\* An except branch that forgets the address.
CountOnly(r, email) == [r EXCEPT !.failed = @ + 1]

\* results["failed"] += 1; results["failed_addresses"].append(email)
CountFailure(r, email) ==
    [r EXCEPT !.failed = @ + 1, !.failed_addresses = Append(@, email)]

\* results["success"] += 1
CountSuccess(r) == [r EXCEPT !.success = @ + 1]

InitMail ==
    /\ AuthIdle
    /\ AdvIdle
    /\ DbIdle
    /\ CacheIdle
    /\ BatchIdle
    /\ configured \in BOOLEAN
    /\ MailAtRest
    /\ AppIdle

\* send_email up to its loop: the two checks that raise, then range(retry_count)
Begin(to, retry_count, caller) ==
    LET res == IF ~configured THEN "raised"
               ELSE IF to = <<>> \/ ~HasAt(to) THEN "raised"
               ELSE IF retry_count <= 0 THEN "false"
               ELSE "none"
    IN  /\ mto' = to
        /\ mretry' = retry_count
        /\ mcaller' = caller
        /\ mattempt' = 0
        /\ mlog' = <<>>
        /\ mres' = res
        /\ mstate' = IF res = "none" THEN "running" ELSE "returned"
        /\ braised' = IF caller = "bulk" /\ res = "raised"
                      THEN Append(braised, to) ELSE braised

\* send_email(to_email, subject, html_body, retry_count), called directly
SendEmail(to, retry_count) ==
    /\ mstate \in {"idle", "returned"}
    /\ bstate \in {"idle", "done"}
    /\ Begin(to, retry_count, "direct")
    /\ UNCHANGED <<notMail, configured, bstate, brecips, bidx, bres, bcalls>>

\* One delivery attempt of send_email and what its except branches make of it.
Attempt(outcome) ==
    /\ mstate = "running"
    /\ LET res == CASE outcome = "ok" -> "true"
                    [] outcome = "auth" -> "raised"
                    [] OTHER -> IF IsLastAttempt(mattempt, mretry) THEN "raised"
                                ELSE IF mattempt + 1 < mretry THEN "none"
                                ELSE "false"
       IN  /\ mlog' = Append(mlog, outcome)
           /\ mres' = res
           /\ mstate' = IF res = "none" THEN "running" ELSE "returned"
           /\ mattempt' = IF res = "none" THEN mattempt + 1 ELSE mattempt
           /\ braised' = IF mcaller = "bulk" /\ res = "raised"
                         THEN Append(braised, mto) ELSE braised
    /\ UNCHANGED <<notMail, configured, mcaller, mto, mretry, bstate, brecips,
                   bidx, bres, bcalls>>

\* send_bulk_email(recipients, subject, html_body): results = {...}
StartBulk(recipients) ==
    /\ mstate \in {"idle", "returned"}
    /\ bstate \in {"idle", "done"}
    /\ bstate' = "loop"
    /\ brecips' = recipients
    /\ bidx' = 1
    /\ bres' = NoResults
    /\ braised' = <<>>
    /\ bcalls' = <<>>
    /\ mstate' = "idle"
    /\ UNCHANGED <<notMail, configured, mcaller, mto, mretry, mattempt, mlog, mres>>

\* for email in recipients: send_email(email, subject, html_body)
BulkCall ==
    /\ bstate = "loop"
    /\ mstate = "idle"
    /\ bidx <= Len(brecips)
    /\ Begin(brecips[bidx], DefaultRetryCount, "bulk")
    /\ bcalls' = Append(bcalls, brecips[bidx])
    /\ UNCHANGED <<notMail, configured, bstate, brecips, bidx, bres>>

\* send_email has returned or raised: the try and the except of the loop body
BulkReturn ==
    /\ bstate = "loop"
    /\ mstate = "returned"
    /\ mcaller = "bulk"
    /\ bres' = IF mres = "raised" THEN CountFailure(bres, brecips[bidx])
               ELSE CountSuccess(bres)
    /\ bidx' = bidx + 1
    /\ mstate' = "idle"
    /\ UNCHANGED <<notMail, configured, mcaller, mto, mretry, mattempt, mlog, mres,
                   bstate, brecips, braised, bcalls>>

\* return results
BulkFinish ==
    /\ bstate = "loop"
    /\ mstate = "idle"
    /\ bidx > Len(brecips)
    /\ bstate' = "done"
    /\ UNCHANGED <<notMail, configured, mstate, mcaller, mto, mretry, mattempt,
                   mlog, mres, brecips, bidx, bres, braised, bcalls>>

NextMail ==
    \/ \E to \in Recipients, n \in 0..MaxRetry : SendEmail(to, n)
    \/ \E o \in Outcomes : Attempt(o)
    \/ \E rs \in RecipientLists : StartBulk(rs)
    \/ BulkCall
    \/ BulkReturn
    \/ BulkFinish

SpecMail == InitMail /\ [][NextMail]_vars

\* Every delivery attempt comes to an end: the SMTP calls have a timeout.
SpecMailLive == SpecMail /\ WF_vars(\E o \in Outcomes : Attempt(o))

\* C17: with credentials and a recipient containing '@', send_email makes at
\* most retry_count attempts, makes none after a success (it returns true)
\* nor after an authentication failure (it raises), raises when the last of
\* the retry_count attempts fails, and always terminates.
C17_Bounded ==
    (configured /\ HasAt(mto) /\ mcaller # "none") =>
        /\ Len(mlog) <= Max(mretry, 0)
        /\ \A i \in 1..(Len(mlog) - 1) : mlog[i] \in {"smtp", "other"}
        /\ mres = "true" <=> (mlog # <<>> /\ mlog[Len(mlog)] = "ok")
        /\ (mlog # <<>> /\ mlog[Len(mlog)] = "auth") => mres = "raised"
        /\ (mlog # <<>> /\ Len(mlog) = mretry
              /\ mlog[Len(mlog)] \in {"smtp", "other"}) => mres = "raised"
        /\ mres = "none" => Len(mlog) < mretry
C18_BulkIsolation ==
    /\ Len(bcalls) <= Len(brecips)
    /\ bcalls = SubSeq(brecips, 1, Len(bcalls))
    /\ bres.success + bres.failed = bidx - 1
    /\ Len(bcalls) \in {bidx - 1, bidx}
    /\ (bstate = "loop" /\ mstate = "idle") =>
           /\ Len(bcalls) = bidx - 1
           /\ bres.failed_addresses = braised
    /\ bstate = "done" =>
           /\ bcalls = brecips
           /\ bres.success + bres.failed = Len(brecips)
           /\ bres.failed = Len(braised)
           /\ bres.failed_addresses = braised

\* C18 happens: of three recipients the second has no '@'; the first and the
\* third were sent after retries, the second is reported.
C18_Witness ==
    /\ bstate = "done"
    /\ brecips = <<AddrA, NoAt, AddrB>>
    /\ bres = [success |-> 2, failed |-> 1, failed_addresses |-> <<NoAt>>]
    /\ mlog = <<"smtp", "ok">>


(***************************************************************************)
(* Further claims about the engine                                         *)
(***************************************************************************)

\* C23: for every snapshot whose six inputs are all numbers, a zero price
\* and zero moving averages included, get_trade_recommendation does not
\* raise and returns BUY, HOLD or SELL with a list of reasons.
C23_NoRaiseOnNumericInputs ==
    (rec # <<>> /\ Complete) =>
        /\ ~rec[1].raised
        /\ rec[1].action \in {"BUY", "HOLD", "SELL"}
        /\ Len(rec[1].reasons) > 0

\* price < dma_200 and (price >= 0.90 * 52w_high or price < dma_50)
SellCondition == Price < Dma200 /\ (Price * 100 >= High52 * 90 \/ Price < Dma50)

\* C27: for every complete snapshot the result is SELL exactly when
\* price < dma_200 and (price >= 0.90 * 52w_high or price < dma_50); BUY
\* implies price > dma_200; every other complete snapshot is a HOLD.
C27_SellIff ==
    (rec # <<>> /\ Complete) =>
        /\ (rec[1].action = "SELL") <=> SellCondition
        /\ rec[1].action = "BUY" => Price > Dma200
        /\ (~SellCondition /\ rec[1].action # "BUY") => rec[1].action = "HOLD"

\* C28: every BUY has a confidence of at least 80: 95 when price > dma_50,
\* 85 when price = dma_50, and no other value.
C28_BuyConfidence ==
    (rec # <<>> /\ ~rec[1].raised /\ rec[1].action = "BUY") =>
        /\ rec[1].confidence >= 80
        /\ rec[1].confidence \in {85, 95}
        /\ Price > Dma50 => rec[1].confidence = 95
        /\ Price = Dma50 => rec[1].confidence = 85
        /\ Price >= Dma50

\* C28 happens: a BUY at a price equal to the 50-day average, confidence 85.
C28_Witness ==
    /\ rec # <<>> /\ Complete
    /\ rec[1].action = "BUY"
    /\ Price = Dma50
    /\ rec[1].confidence = 85


(***************************************************************************)
(* Further claims about users                                              *)
(***************************************************************************)
\* C29: after any sequence of create_user calls at most one user matches any
\* email case-insensitively, so once create_user(name, e, tickers) has
\* returned an id, get_user_by_email with e or any case variant of e returns
\* the user with that id and the tickers given at creation (upper-cased, as
\* they are stored).
C29_OneUserPerEmailNoCase ==
    /\ \A e \in UserEmails : Cardinality(MatchingUsers(users, e)) <= 1
    /\ (dbCall.op = "create_user" /\ dbCall.ret # <<>>) =>
           \A e \in UserEmails :
               NoCase(e) = NoCase(dbCall.email) =>
                   \A r \in get_user_by_email(e) :
                       /\ r # <<>>
                       /\ r[1].id = dbCall.ret[1]
                       /\ r[1].tickers = UpperAll(dbCall.tickers)


(***************************************************************************)
(* Further claims about the cache                                          *)
(***************************************************************************)
\* C25: when two threads of one process have called set_cached for the same
\* ticker and both calls have returned, the in-process map and the durable
\* row hold the same snapshot for that ticker, one of those written.
C25_ConcurrentSetAgree ==
    (~CacheBusy /\ cacheCall.op = "set") =>
        \A k \in CacheTickers :
            memory[WebProc][k] # <<>> =>
                \E r \in market_cache :
                    /\ r.ticker = k
                    /\ Loads(r.payload) = memory[WebProc][k][1].data


(***************************************************************************)
(* Further claims about the provider                                       *)
(***************************************************************************)
\* C30: when the upstream answers a list of at least 20 rows of which n are
\* clean, n < 20 gives the snapshot with every indicator absent; for
\* n >= 20 current_price, volume, 52w_high, 52w_low and rsi_14 are present,
\* dma_50 is present exactly when n >= 50 and dma_200 exactly when
\* n >= 200; so with fewer than 200 clean rows get_trade_recommendation
\* gives HOLD with confidence 0.
C30_FieldsByRowCount ==
    (lastFetch.kind = "list" /\ lastFetch.rows >= 20) =>
        /\ ~lastFetch.raised
        /\ lastFetch.n < 20 =>
               \A k \in SnapshotKeys \ {"symbol"} : lastFetch.value[k] = <<>>
        /\ lastFetch.n >= 20 =>
               /\ \A k \in {"current_price", "volume", "52w_high", "52w_low",
                            "rsi_14"} : lastFetch.value[k] # <<>>
               /\ (lastFetch.value["dma_50"] # <<>>) <=> (lastFetch.n >= 50)
               /\ (lastFetch.value["dma_200"] # <<>>) <=> (lastFetch.n >= 200)
        /\ lastFetch.n < 200 =>
               \E r \in {get_trade_recommendation(lastFetch.value)} :
                   ~r.raised /\ r.action = "HOLD" /\ r.confidence = 0

\* C30 happens: 199 clean rows gave a snapshot with a price and a 50-day
\* mean but no 200-day mean, and the batch shows HOLD with confidence 0 for
\* the symbol.
C30_Witness ==
    /\ lastFetch.kind = "list" /\ lastFetch.n = 199
    /\ lastFetch.value["dma_50"] # <<>>
    /\ lastFetch.value["dma_200"] = <<>>
    /\ \E i \in 1..Len(results) :
           /\ trace[i].requested
           /\ trace[i].snapshot = lastFetch.value
           /\ results[i].ticker = lastFetch.symbol
           /\ results[i].price # <<>>
           /\ results[i].action = "HOLD" /\ results[i].confidence = 0


(***************************************************************************)
(* Claims about the routes                                                 *)
(***************************************************************************)
\* The text of a login form is no email address: it does not have the shape
\* local@domain.tld or its length is not within 5..254.
InvalidEmailText(text) ==
    \E f \in LoginForms :
        /\ f.text = text
        /\ \E e \in {Strip(f.chars)} :
               ~(Len(e) >= 5 /\ Len(e) <= 254 /\ MatchesEmailPattern(e))

\* A request has been answered in this step.
NewAnswer(route) == webCall'.seq # webCall.seq /\ webCall'.route = route

\* Every magic-link email carries a token that /login stored.
C22_SentLinksAreStored ==
    \A m \in sent :
        m.kind = "magic-link" =>
            /\ created[m.token] = <<m.at>>
            /\ savedEmail[m.token] = m.to

\* What one POST /login does, by its response.
C22_LoginStep ==
    NewAnswer("login") =>
        /\ (webCall'.status = 400) <=> InvalidEmailText(webCall'.email)
        /\ (webCall'.status = 404) <=>
               /\ ~InvalidEmailText(webCall'.email)
               /\ MatchingUsers(users, webCall'.email) = {}
        /\ webCall'.status \in {400, 404} =>
               UNCHANGED <<magic_links, sent, created>>
        /\ webCall' = Answered("login", webCall'.client, RespLinkError,
                               webCall'.hadSession, webCall'.email,
                               webCall'.token) =>
               /\ UNCHANGED <<magic_links, sent, created>>
               /\ saveResult' = FALSE
        /\ sent' # sent =>
               /\ webCall'.status = 200
               /\ saveResult' = TRUE
               /\ \E m \in sent' :
                      /\ sent' = sent \cup {m}
                      /\ m.kind = "magic-link"
                      /\ m.to = webCall'.email
                      /\ m.token = webCall'.token
                      /\ \E r \in magic_links' :
                             /\ r \notin magic_links
                             /\ magic_links' = magic_links \cup {r}
                             /\ r.token = m.token
                             /\ r.email = m.to
                             /\ ~r.used
                             /\ r.expires_at = now + 15
        /\ webCall'.status = 200 => sent' # sent

\* C22: POST /login sends the magic-link email only after a token for that
\* email has been stored; an invalid email (400) or an unknown one (404)
\* stores no token and sends nothing; a failed save_magic_link gives 500 and
\* no email; the token of every emailed link is stored, unused and expires
\* 15 minutes after its creation.
C22_LoginStoresBeforeSending ==
    []C22_SentLinksAreStored /\ [][C22_LoginStep]_vars

\* C22 happens: a link was emailed to a known user, and another login of the
\* same user then failed to store its token and sent nothing.
C22_Witness ==
    /\ webCall.route = "login" /\ webCall.status = 500
    /\ webCall.body = RespLinkError.body
    /\ \E m \in sent : m.kind = "magic-link" /\ m.to = webCall.email
    /\ Cardinality(sent) = 1

\* The session of every client comes from a verify_magic_link that succeeded
\* for a token saved for that email.
C24_SessionFromVerify ==
    /\ \A p \in Procs :
           session[p] # None =>
               \E t \in Tokens :
                   /\ savedEmail[t] = session[p]
                   /\ \E i \in 1..Len(successes[t]) : successes[t][i] = session[p]
    /\ bpc = "loop" => (owner # 0 /\ wpc[owner] \in {"batch-json", "email-results"})

\* What a step does to the session, and what a request sent without a
\* session does (wpc[p] = "idle": the answer is to a request that has just
\* arrived, not the end of one that was being analysed).
C24_SessionStep ==
    /\ \A p \in Procs :
           /\ (session'[p] # session[p] /\ session'[p] # None) =>
                  /\ pc[p] = "commit" /\ pc'[p] = "done"
                  /\ result'[p] = session'[p]
                  /\ savedEmail[tok[p]] = session'[p]
           /\ (NewAnswer("logout") /\ webCall'.client = p) =>
                  session'[p] = None
           /\ (wpc[p] = "idle" /\ wpc'[p] # "idle") =>
                  /\ session[p] # None
                  /\ MatchingUsers(users, session[p]) # {}
           /\ (/\ \/ NewAnswer("batch-json")
                  \/ NewAnswer("email-results")
               /\ webCall'.client = p
               /\ wpc[p] = "idle"
               /\ session[p] = None) =>
                  /\ webCall'.status = 302 /\ webCall'.body = "/login"
                  /\ UNCHANGED <<lru, lastFetch, recommendations, nextRecId,
                                 sent, bpc, owner, wpc>>
    /\ (lru' # lru \/ lastFetch' # lastFetch \/ recommendations' # recommendations) =>
           /\ bpc = "loop"
           /\ owner # 0
           /\ wpc[owner] # "idle"
    /\ (\E m \in sent' \ sent : m.kind = "results") =>
           /\ owner # 0
           /\ wpc[owner] = "email-results"

\* C24: a session holds user_email only if a verify_magic_link for a token
\* saved for that email succeeded in that session and no /logout came after
\* it; a GET /batch-json or POST /email-results without a session is
\* redirected to the login page and fetches nothing, writes no history and
\* sends no email; the same holds after /logout.
C24_ProtectedRoutesNeedSession ==
    []C24_SessionFromVerify /\ [][C24_SessionStep]_vars

\* C24 happens: a client logged in by a magic link, had its watchlist
\* analysed, logged out, and its next request to /batch-json was redirected.
C24_Witness ==
    /\ webCall.route = "batch-json" /\ webCall.status = 302
    /\ ~webCall.hadSession
    /\ session[webCall.client] = None
    /\ \E t \in Tokens : successes[t] # <<>>
    /\ recommendations # {}

=============================================================================
